---- MODULE Spec2Model ----
(***************************************************************************)
(* Model of the driving-event detection engine (class DataProcessor).      *)
(* The repository holds two variants of the class:                         *)
(*   "hybrid"     src/data-processor.js   (v2.2, GPS + accelerometer)      *)
(*   "calibrated" src/unnamed/part_001    (v2.1, GPS-centred)              *)
(* The variable `variant` selects the one a behaviour runs.                *)
(*                                                                         *)
(* Units.  Time: 1 = 500 ms (Date.now() and sample timestamps).            *)
(*         Acceleration: 1 = 0.1 m/s^2.   Speed: 1 = 1 km/h.               *)
(*         Position: points of one meridian, 1 step = MetresPerStep m.     *)
(* A quotient the code computes in floating point is kept exact as a       *)
(* fraction [n, d] with d > 0; the baseline (a mean of 5) and the filtered *)
(* acceleration are kept multiplied by 5.                                  *)
(***************************************************************************)
EXTENDS Integers, Sequences, FiniteSets, TLC

VARIABLES
    variant,              \* which source file the engine is
    clock,                \* Date.now()
    thresholds,           \* this.thresholds
    eventCounters,        \* this.eventCounters
    dataBuffer,           \* this.dataBuffer
    accelerationHistory,  \* this.accelerationHistory
    motionHistory,        \* this.motionHistory (hybrid)
    speedHistory,         \* this.speedHistory (calibrated)
    baselineAcceleration, \* this.baselineAcceleration (hybrid)
    lastEventTime,        \* this.lastEventTime
    isVehicleMoving,      \* this.isVehicleMoving
    movementConfidence,   \* this.movementConfidence
    gpsAvailable,         \* this.gpsAvailable (hybrid)
    lastRecordTime,       \* this.lastRecordTime
    lastGPSPoint,         \* this.lastGPSPoint
    currentSpeedLimit,    \* this.currentSpeedLimit
    eventListeners,       \* this.eventListeners.get('drivingEvent')
    op,                   \* the operation that produced this state
    arg,                  \* its argument (raw sample or threshold overrides)
    result,               \* what the last processDataPoint call returned
    notified,             \* the observer calls made by the last operation
    evidence,             \* the evidence flags of the last accepted sample
    hist,                 \* history of the session, for stating the properties
    app,                  \* what the caller holds: this.data of DrivingMonitorApp,
                          \* the object getCurrentCounters returned, the statistics
    env                   \* the harness that drives the engine

engine == <<thresholds, eventCounters, dataBuffer, accelerationHistory,
            motionHistory, speedHistory, baselineAcceleration, lastEventTime,
            isVehicleMoving, movementConfidence, gpsAvailable, lastRecordTime,
            lastGPSPoint, currentSpeedLimit, eventListeners>>

vars == <<variant, clock, engine, op, arg, result, notified, evidence, hist, app>>

(***************************************************************************)
(* Program constants                                                       *)
(***************************************************************************)
EventTypes == {"harsh_acceleration", "harsh_braking", "aggressive_turn", "speeding"}

Variants == {"hybrid", "calibrated"}

BufferSizeHybrid == 8
BufferSizeCalibrated == 5
RecordIntervalHybrid == 3
RecordIntervalCalibrated == 4
AccelHistoryMax == 10
MotionHistoryMax == 20
BaselineWindow == 5
SustainedWindow == 5
SustainedCount == 3
SpeedHistoryMax == 5
AccelHistoryMaxCalibrated == 5
DefaultSpeedLimit == 60

bufferSize(v) == IF v = "hybrid" THEN BufferSizeHybrid ELSE BufferSizeCalibrated

recordInterval(v) == IF v = "hybrid" THEN RecordIntervalHybrid ELSE RecordIntervalCalibrated

DefaultThresholds(v) ==
    IF v = "hybrid"
    THEN [harsh_acceleration |-> 20, harsh_braking |-> 20, aggressive_turn |-> 30,
          speeding |-> 25, minimum_speed |-> 3, motion_threshold |-> 15,
          acceleration_noise |-> 5, gps_noise |-> 1, stability_time |-> 4]
    ELSE [harsh_acceleration |-> 35, harsh_braking |-> 35, aggressive_turn |-> 55,
          speeding |-> 20, minimum_speed |-> 5, motion_threshold |-> 0,
          acceleration_noise |-> 10, gps_noise |-> 2, stability_time |-> 6]

speedLimits == [urban |-> 60, highway |-> 110, residential |-> 40, school |-> 20, default |-> 60]

ZeroCounters == [t \in EventTypes |-> 0]

NoBaseline == [set |-> FALSE, x |-> 0, y |-> 0, z |-> 0]

NoGPSPoint == [set |-> FALSE, lat |-> 0, lon |-> 0, timestamp |-> 0]

NoEventTimes == [t \in EventTypes |-> 0]

(***************************************************************************)
(* Arithmetic helpers                                                      *)
(***************************************************************************)
Abs(n) == IF n < 0 THEN -n ELSE n

Min(a, b) == IF a < b THEN a ELSE b

Frac(n, d) == [n |-> n, d |-> d]

\* f > k for a fraction f and an integer k
FracGT(f, k) == f.n > k * f.d

\* f < k
FracLT(f, k) == f.n < k * f.d

\* f >= k
FracGE(f, k) == f.n >= k * f.d

FracAbs(f) == [n |-> Abs(f.n), d |-> f.d]

FracIsZero(f) == f.n = 0

RECURSIVE SqrtSearch(_, _, _)
SqrtSearch(q, lo, hi) ==
    IF lo >= hi THEN lo
    ELSE LET mid == (lo + hi + 1) \div 2
         IN IF mid * mid <= q THEN SqrtSearch(q, mid, hi) ELSE SqrtSearch(q, lo, mid - 1)

\* floor(sqrt(q)), 0 <= q < 2^30
ISqrt(q) == SqrtSearch(q, 0, 32767)

RECURSIVE SumSeq(_)
SumSeq(s) == IF s = <<>> THEN 0 ELSE Head(s) + SumSeq(Tail(s))

\* s.slice(-k)
LastK(s, k) == IF Len(s) <= k THEN s ELSE SubSeq(s, Len(s) - k + 1, Len(s))

\* v bound to a name: With(e, LAMBDA x : body) is "const x = e; body"
With(v, Op(_)) == Op(v)

\* push, then shift while longer than max
PushBounded(s, e, max) ==
    LET s1 == Append(s, e) IN IF Len(s1) > max THEN Tail(s1) ELSE s1

(***************************************************************************)
(* Raw samples.  A field that is absent (undefined) has its flag FALSE and *)
(* the value 0.  kind tells what Utils.validateDataStructure sees.         *)
(***************************************************************************)
SampleKinds == {"valid", "not_object", "no_timestamp", "no_participante",
                "timestamp_not_string", "participante_not_string"}

MkRaw(kind, ts, gps, lat, lon, hasVel, vel, acc, x, y, z) ==
    [kind |-> kind, timestamp |-> ts, gps |-> gps, lat |-> lat, lon |-> lon,
     hasVel |-> hasVel, velocidad |-> vel, acc |-> acc, x |-> x, y |-> y, z |-> z]

\* Utils.validateDataStructure without its two typeof tests
validateDataStructureUntyped(data) ==
    data.kind \in {"valid", "timestamp_not_string", "participante_not_string"}

\* Utils.validateDataStructure
validateDataStructure(data) == data.kind = "valid"

\* JavaScript truthiness of an optional number: defined and not 0
Truthy(has, v) == has /\ v # 0

MetresPerStep == 10

\* Utils.calculateDistance for two points of one meridian (lon1 = lon2):
\* the haversine distance is proportional to |lat1 - lat2|
calculateDistance(lat1, lon1, lat2, lon2) == MetresPerStep * Abs(lat1 - lat2)

(***************************************************************************)
(* Movement classifier, hybrid variant (src/data-processor.js)             *)
(***************************************************************************)
\* calculateAccelerationBaseline: mean of the last 5 vectors, kept times 5
calculateAccelerationBaseline(ah) ==
    IF Len(ah) < BaselineWindow THEN NoBaseline
    ELSE LET recent == LastK(ah, BaselineWindow)
         IN [set |-> TRUE,
             x |-> SumSeq([i \in 1..Len(recent) |-> recent[i].x]),
             y |-> SumSeq([i \in 1..Len(recent) |-> recent[i].y]),
             z |-> SumSeq([i \in 1..Len(recent) |-> recent[i].z])]

\* 25 * (variation)^2, variation = calculateAccelerationVariation(current)
VariationSq25(current, base) ==
    IF ~base.set THEN 0
    ELSE (5 * current.x - base.x) * (5 * current.x - base.x)
       + (5 * current.y - base.y) * (5 * current.y - base.y)
       + (5 * current.z - base.z) * (5 * current.z - base.z)

\* variation > limit
VariationExceeds(current, base, limit) ==
    IF limit < 0 THEN TRUE ELSE VariationSq25(current, base) > 25 * limit * limit

\* detectMotionFromAccelerometer forgetting the baseline when the sample has
\* no usable reading
detectMotionFromAccelerometerForgetting(data, ah, base, mh, th) ==
    IF ~(Truthy(data.acc, data.x) /\ Truthy(data.acc, data.y) /\ Truthy(data.acc, data.z))
    THEN [flag |-> FALSE, accelerationHistory |-> ah, baseline |-> NoBaseline,
          motionHistory |-> mh]
    ELSE LET currentAccel == [x |-> data.x, y |-> data.y, z |-> data.z]
             ah1 == PushBounded(ah, currentAccel, AccelHistoryMax)
             base1 == IF ~base.set /\ Len(ah1) >= BaselineWindow
                      THEN calculateAccelerationBaseline(ah1) ELSE base
         IN IF ~base1.set
            THEN [flag |-> FALSE, accelerationHistory |-> ah1, baseline |-> base1,
                  motionHistory |-> mh]
            ELSE LET moving == VariationExceeds(currentAccel, base1, th.motion_threshold)
                 IN [flag |-> moving, accelerationHistory |-> ah1, baseline |-> base1,
                     motionHistory |-> PushBounded(mh, moving, MotionHistoryMax)]

\* detectMotionFromAccelerometer: the flag and the updated histories
detectMotionFromAccelerometer(data, ah, base, mh, th) ==
    IF ~(Truthy(data.acc, data.x) /\ Truthy(data.acc, data.y) /\ Truthy(data.acc, data.z))
    THEN [flag |-> FALSE, accelerationHistory |-> ah, baseline |-> base, motionHistory |-> mh]
    ELSE LET currentAccel == [x |-> data.x, y |-> data.y, z |-> data.z]
             ah1 == PushBounded(ah, currentAccel, AccelHistoryMax)
             base1 == IF ~base.set /\ Len(ah1) >= BaselineWindow
                      THEN calculateAccelerationBaseline(ah1) ELSE base
         IN IF ~base1.set
            THEN [flag |-> FALSE, accelerationHistory |-> ah1, baseline |-> base1,
                  motionHistory |-> mh]
            ELSE LET moving == VariationExceeds(currentAccel, base1, th.motion_threshold)
                 IN [flag |-> moving, accelerationHistory |-> ah1, baseline |-> base1,
                     motionHistory |-> PushBounded(mh, moving, MotionHistoryMax)]

\* hasSustainedMotion
hasSustainedMotion(mh) ==
    IF Len(mh) < SustainedWindow THEN FALSE
    ELSE LET recent == LastK(mh, SustainedWindow)
         IN Cardinality({i \in 1..Len(recent) : recent[i]}) >= SustainedCount

\* calculatedSpeed > limit, calculatedSpeed = distance / timeDiff * 3.6
\* (distance in m, elapsed in time units of 0.5 s, limit in km/h)
DisplacementSpeedExceeds(distance, elapsed, limit) == 36 * distance > 5 * limit * elapsed

\* hasGPSMovement (hybrid): the flag and the updated last GPS point
hasGPSMovementHybrid(data, last, now, th) ==
    LET hasLat == Truthy(data.gps, data.lat)
        hasLon == Truthy(data.gps, data.lon)
        here == [set |-> TRUE, lat |-> data.lat, lon |-> data.lon, timestamp |-> now]
    IN IF ~hasLat \/ ~hasLon \/ ~last.set
       THEN [flag |-> FALSE, lastGPSPoint |-> IF hasLat /\ hasLon THEN here ELSE last]
       ELSE LET distance == calculateDistance(last.lat, last.lon, data.lat, data.lon)
                timeDiff == now - last.timestamp
            IN [flag |-> IF timeDiff > 0
                         THEN DisplacementSpeedExceeds(distance, timeDiff, th.gps_noise)
                         ELSE 0 > th.gps_noise,
                lastGPSPoint |-> here]

B2N(b) == IF b THEN 1 ELSE 0

\* the confidence fusion with the no-GPS terms added to the GPS terms
\* instead of replacing them, and no cap
HybridConfidenceAdditive(hasGPS, speedCriteria, gpsMotion, accelMotion, sustained) ==
    40 * B2N(speedCriteria) + 30 * B2N(gpsMotion) + 30 * B2N(accelMotion)
    + 70 * B2N(accelMotion) + 30 * B2N(sustained)

\* the confidence fusion with the weights of each branch exchanged
HybridConfidenceSwapped(hasGPS, speedCriteria, gpsMotion, accelMotion, sustained) ==
    Min(IF hasGPS
        THEN 30 * B2N(speedCriteria) + 40 * B2N(gpsMotion) + 30 * B2N(accelMotion)
        ELSE 30 * B2N(accelMotion) + 70 * B2N(sustained), 100)

\* the confidence fusion of updateHybridMovementDetection
HybridConfidence(hasGPS, speedCriteria, gpsMotion, accelMotion, sustained) ==
    LET confidence == IF hasGPS
                      THEN 40 * B2N(speedCriteria) + 30 * B2N(gpsMotion) + 30 * B2N(accelMotion)
                      ELSE 70 * B2N(accelMotion) + 30 * B2N(sustained)
    IN Min(confidence, 100)

\* the decision with its comparison turned around
HybridDecisionInverted(hasGPS, confidence) == confidence < (IF hasGPS THEN 50 ELSE 40)

\* the decision with both thresholds lowered by 10 and reached inclusively
HybridDecisionLowered(hasGPS, confidence) == confidence >= (IF hasGPS THEN 40 ELSE 30)

\* the decision threshold of updateHybridMovementDetection
HybridDecision(hasGPS, confidence) == confidence > (IF hasGPS THEN 50 ELSE 40)

\* updateHybridMovementDetection: every field it assigns, and the evidence flags
updateHybridMovementDetection(rawData, ah, base, mh, last, now, th) ==
    LET hasGPS == Truthy(rawData.gps, rawData.lat) /\ Truthy(rawData.gps, rawData.lon)
        speed == IF Truthy(rawData.hasVel, rawData.velocidad) THEN rawData.velocidad ELSE 0
        speedCriteria == hasGPS /\ speed > th.minimum_speed
    IN
    With(IF hasGPS THEN hasGPSMovementHybrid(rawData, last, now, th)
         ELSE [flag |-> FALSE, lastGPSPoint |-> last], LAMBDA g :
    With(detectMotionFromAccelerometer(rawData, ah, base, mh, th), LAMBDA a :
    With(hasSustainedMotion(a.motionHistory), LAMBDA sustained :
    With(HybridConfidence(hasGPS, speedCriteria, g.flag, a.flag, sustained), LAMBDA confidence :
       [gpsAvailable |-> hasGPS,
        accelerationHistory |-> a.accelerationHistory,
        baselineAcceleration |-> a.baseline,
        motionHistory |-> a.motionHistory,
        lastGPSPoint |-> g.lastGPSPoint,
        movementConfidence |-> confidence,
        isVehicleMoving |-> HybridDecision(hasGPS, confidence),
        evidence |-> [hasGPS |-> hasGPS, speedCriteria |-> speedCriteria,
                      gpsMotion |-> g.flag, accelMotion |-> a.flag,
                      sustained |-> sustained]]))))

(***************************************************************************)
(* Enrichment and event detection, hybrid variant                          *)
(***************************************************************************)
ZeroFrac == Frac(0, 1)

NoVector == [x |-> 0, y |-> 0, z |-> 0]

\* the fields an enriched sample can carry beyond the raw ones, all absent
NoDerived ==
    [hasFiltered |-> FALSE, filtered_acceleration |-> NoVector,
     hasEstimated |-> FALSE, estimated_speed |-> 0,
     hasFilteredSpeed |-> FALSE, filtered_speed |-> ZeroFrac,
     hasLongitudinal |-> FALSE, longitudinal_acceleration |-> ZeroFrac,
     driving_context |-> "none", speed_limit |-> 0,
     vehicle_moving |-> FALSE, movement_confidence |-> 0,
     gps_available |-> FALSE, detection_method |-> "none"]

\* { ...rawData } with no derived field yet
Spread(rawData) == [raw |-> rawData] @@ NoDerived

\* calculateFilteredAcceleration (times 5): raw minus baseline, or raw
calculateFilteredAcceleration(data, base) ==
    IF ~base.set THEN [x |-> 5 * data.x, y |-> 5 * data.y, z |-> 5 * data.z]
    ELSE [x |-> 5 * data.x - base.x, y |-> 5 * data.y - base.y, z |-> 5 * data.z - base.z]

\* 50 * calculateAccelerationVariation(a), rounded down
Variation50(a, base) == ISqrt(100 * VariationSq25(a, base))

\* estimateSpeedFromAccelerometer
estimateSpeedFromAccelerometer(ah, base) ==
    IF Len(ah) < 3 THEN 0
    ELSE LET recent == LastK(ah, 3)
             total == SumSeq([i \in 1..Len(recent) |-> Variation50(recent[i], base)])
         IN IF total > 3 * 50 * 40 THEN 60
            ELSE IF total > 3 * 50 * 20 THEN 35
            ELSE IF total > 3 * 50 * 10 THEN 15
            ELSE 5

\* (dv km/h) / (elapsed time units) / 3.6 in units of 0.1 m/s^2
SpeedDeltaToAccel(dv, elapsed) == Frac(50 * dv, 9 * elapsed)

\* calculateLongitudinalAcceleration (hybrid)
calculateLongitudinalAcceleration(data, buf) ==
    IF Len(buf) = 0 THEN ZeroFrac
    ELSE LET lastPoint == buf[Len(buf)]
             timeDelta == data.raw.timestamp - lastPoint.raw.timestamp
         IN IF timeDelta <= 0 THEN ZeroFrac
            ELSE IF data.raw.hasVel /\ lastPoint.raw.hasVel
            THEN SpeedDeltaToAccel(data.raw.velocidad - lastPoint.raw.velocidad, timeDelta)
            ELSE IF data.hasEstimated /\ lastPoint.hasEstimated
            THEN SpeedDeltaToAccel(data.estimated_speed - lastPoint.estimated_speed, timeDelta)
            ELSE ZeroFrac

\* enrichDataFieldTested
enrichDataFieldTested(rawData, buf, ah, base, moving, confidence, gps) ==
    LET e0 == Spread(rawData)
        e1 == IF rawData.acc
              THEN [e0 EXCEPT !.hasFiltered = TRUE,
                              !.filtered_acceleration = calculateFilteredAcceleration(rawData, base)]
              ELSE e0
        e2 == IF ~Truthy(rawData.hasVel, rawData.velocidad) /\ moving
              THEN [e1 EXCEPT !.hasEstimated = TRUE,
                              !.estimated_speed = estimateSpeedFromAccelerometer(ah, base)]
              ELSE e1
        e3 == IF Len(buf) > 0
              THEN [e2 EXCEPT !.hasLongitudinal = TRUE,
                              !.longitudinal_acceleration = calculateLongitudinalAcceleration(e2, buf)]
              ELSE e2
    IN [e3 EXCEPT !.vehicle_moving = moving,
                  !.movement_confidence = confidence,
                  !.gps_available = gps,
                  !.detection_method = IF gps THEN "GPS+Accel" ELSE "Accel-Only"]

\* value / threshold >= a / b  (value a fraction; JavaScript division: a zero
\* threshold gives Infinity or NaN, a negative one reverses the order)
RatioGE(value, threshold, a, b) ==
    IF threshold > 0 THEN value.n * b >= a * threshold * value.d
    ELSE IF threshold = 0 THEN value.n > 0
    ELSE value.n * b <= a * threshold * value.d

\* calculateSeverity of the two variants
calculateSeverity(v, value, threshold) ==
    IF v = "hybrid"
    THEN IF RatioGE(value, threshold, 20, 10) THEN "extreme"
         ELSE IF RatioGE(value, threshold, 15, 10) THEN "high"
         ELSE IF RatioGE(value, threshold, 12, 10) THEN "moderate"
         ELSE "low"
    ELSE IF RatioGE(value, threshold, 25, 10) THEN "extreme"
         ELSE IF RatioGE(value, threshold, 20, 10) THEN "high"
         ELSE IF RatioGE(value, threshold, 15, 10) THEN "moderate"
         ELSE "low"

\* calculateSpeedingSeverity
calculateSpeedingSeverity(excess) ==
    IF FracGE(excess, 40) THEN "extreme"
    ELSE IF FracGE(excess, 30) THEN "high"
    ELSE IF FracGE(excess, 20) THEN "moderate"
    ELSE "low"

\* the debounce test with >= for >
NotDebouncedInclusive(last, now, window) == last = 0 \/ now - last >= window

\* the debounce test: !this.lastEventTime[type] || now - last > window
NotDebounced(last, now, window) == last = 0 \/ now - last > window

\* the debounce window of speeding, as a multiple of stability_time
SpeedingWindowFactor(v) == IF v = "hybrid" THEN 2 ELSE 3

MkEvent(type, severity, value, data, confidence) ==
    [type |-> type, severity |-> severity, value |-> value,
     timestamp |-> data.raw.timestamp, confidence |-> confidence]

\* calculateInstantLongitudinal: filteredAccel.y || 0
calculateInstantLongitudinal(filteredAccel) == Frac(filteredAccel.y, 5)

\* the triggers of detectEventsHybrid, reached when the vehicle is moving:
\* the events and the updated last-event-time map
HybridTriggers(data, times, limit, th, now) ==
    LET minTimeBetweenEvents == th.stability_time
        longitudinal == IF data.hasLongitudinal /\ ~FracIsZero(data.longitudinal_acceleration)
                        THEN data.longitudinal_acceleration
                        ELSE calculateInstantLongitudinal(data.filtered_acceleration)
        accel == data.hasFiltered
                 /\ FracGT(longitudinal, th.harsh_acceleration)
                 /\ NotDebounced(times["harsh_acceleration"], now, minTimeBetweenEvents)
        brake == data.hasFiltered
                 /\ FracLT(longitudinal, -th.harsh_braking)
                 /\ NotDebounced(times["harsh_braking"], now, minTimeBetweenEvents)
        lateral == Frac(Abs(data.filtered_acceleration.x), 5)
        turn == data.hasFiltered
                /\ FracGT(lateral, th.aggressive_turn)
                /\ NotDebounced(times["aggressive_turn"], now, minTimeBetweenEvents)
        excess == data.raw.velocidad - limit
        speeding == data.gps_available /\ Truthy(data.raw.hasVel, data.raw.velocidad)
                    /\ excess > th.speeding
                    /\ NotDebounced(times["speeding"], now,
                                    minTimeBetweenEvents * SpeedingWindowFactor("hybrid"))
        on == [t \in EventTypes |->
                 CASE t = "harsh_acceleration" -> accel
                   [] t = "harsh_braking" -> brake
                   [] t = "aggressive_turn" -> turn
                   [] OTHER -> speeding]
    IN [events |->
           (IF accel THEN <<MkEvent("harsh_acceleration",
                              calculateSeverity("hybrid", longitudinal, th.harsh_acceleration),
                              longitudinal, data, data.movement_confidence)>> ELSE <<>>)
        \o (IF brake THEN <<MkEvent("harsh_braking",
                              calculateSeverity("hybrid", FracAbs(longitudinal), th.harsh_braking),
                              FracAbs(longitudinal), data, data.movement_confidence)>> ELSE <<>>)
        \o (IF turn THEN <<MkEvent("aggressive_turn",
                              calculateSeverity("hybrid", lateral, th.aggressive_turn),
                              lateral, data, data.movement_confidence)>> ELSE <<>>)
        \o (IF speeding THEN <<MkEvent("speeding", calculateSpeedingSeverity(Frac(excess, 1)),
                              Frac(excess, 1), data, data.movement_confidence)>> ELSE <<>>),
        lastEventTime |-> [t \in EventTypes |-> IF on[t] THEN now ELSE times[t]]]

\* detectEventsHybrid without its first statement, the movement gate
detectEventsHybridUngated(data, moving, times, limit, th, now) ==
    HybridTriggers(data, times, limit, th, now)

\* detectEventsHybrid with one last-event time shared by the four types
detectEventsHybridShared(data, moving, times, limit, th, now) ==
    IF ~moving THEN [events |-> <<>>, lastEventTime |-> times]
    ELSE LET latest == CHOOSE m \in {times[t] : t \in EventTypes} :
                           \A t \in EventTypes : times[t] <= m
         IN HybridTriggers(data, [t \in EventTypes |-> latest], limit, th, now)

\* detectEventsHybrid restarting the window of a type at every sample that
\* satisfies its trigger, emitted or suppressed
detectEventsHybridExtending(data, moving, times, limit, th, now) ==
    IF ~moving THEN [events |-> <<>>, lastEventTime |-> times]
    ELSE LET triggered == HybridTriggers(data, NoEventTimes, limit, th, now).lastEventTime
         IN [events |-> HybridTriggers(data, times, limit, th, now).events,
             lastEventTime |-> [t \in EventTypes |->
                                   IF triggered[t] # 0 THEN now ELSE times[t]]]

\* detectEventsHybrid testing the magnitude of the longitudinal acceleration
\* for braking: every harsh_acceleration event comes with a harsh_braking one
detectEventsHybridMagnitude(data, moving, times, limit, th, now) ==
    IF ~moving THEN [events |-> <<>>, lastEventTime |-> times]
    ELSE LET r == HybridTriggers(data, times, limit, th, now)
             accel == SelectSeq(r.events, LAMBDA ev : ev.type = "harsh_acceleration")
         IN [events |-> r.events
                        \o [i \in 1..Len(accel) |-> [accel[i] EXCEPT !.type = "harsh_braking"]],
             lastEventTime |-> r.lastEventTime]

\* detectEventsHybrid: nothing while the vehicle is not moving
detectEventsHybrid(data, moving, times, limit, th, now) ==
    IF ~moving THEN [events |-> <<>>, lastEventTime |-> times]
    ELSE HybridTriggers(data, times, limit, th, now)

\* updateBuffer keeping only the samples of a moving vehicle
updateBufferMoving(buf, data, size) ==
    IF data.vehicle_moving THEN PushBounded(buf, data, size) ELSE buf

\* updateBuffer
updateBuffer(buf, data, size) == PushBounded(buf, data, size)

(***************************************************************************)
(* Movement classifier, enrichment and event detection, calibrated variant *)
(* (src/unnamed/part_001)                                                  *)
(***************************************************************************)
\* hasSignificantAcceleration: the flag and the updated history
hasSignificantAcceleration(data, ah, th) ==
    IF ~(Truthy(data.acc, data.x) /\ Truthy(data.acc, data.y) /\ Truthy(data.acc, data.z))
    THEN [flag |-> FALSE, accelerationHistory |-> ah]
    ELSE LET cur == [x |-> data.x, y |-> data.y, z |-> data.z]
         IN IF Len(ah) > 0
            THEN LET last == ah[Len(ah)]
                     variationSq == (data.x - last.x) * (data.x - last.x)
                                  + (data.y - last.y) * (data.y - last.y)
                                  + (data.z - last.z) * (data.z - last.z)
                     noise == th.acceleration_noise
                 IN [flag |-> IF noise < 0 THEN TRUE ELSE variationSq > noise * noise,
                     accelerationHistory |-> PushBounded(ah, cur, AccelHistoryMaxCalibrated)]
            ELSE [flag |-> FALSE, accelerationHistory |-> Append(ah, cur)]

\* hasGPSMovement (calibrated): the flag and the updated last GPS point
hasGPSMovementCalibrated(data, last, now, th) ==
    IF ~Truthy(data.gps, data.lat) \/ ~Truthy(data.gps, data.lon) \/ ~last.set
    THEN [flag |-> FALSE, lastGPSPoint |-> last]
    ELSE LET distance == calculateDistance(last.lat, last.lon, data.lat, data.lon)
             timeDiff == now - last.timestamp
         IN [flag |-> IF timeDiff > 0
                      THEN DisplacementSpeedExceeds(distance, timeDiff, th.gps_noise)
                      ELSE IF timeDiff = 0 THEN distance > 0
                      ELSE 36 * distance < 5 * th.gps_noise * timeDiff,
             lastGPSPoint |-> [set |-> TRUE, lat |-> data.lat, lon |-> data.lon,
                               timestamp |-> now]]

\* the confidence sum of updateMovementDetection
CalibratedConfidence(speedCriteria, accelerationVariation, gpsMovement) ==
    40 * B2N(speedCriteria) + 30 * B2N(accelerationVariation) + 30 * B2N(gpsMovement)

\* updateMovementDetection: every field it assigns, and the evidence flags
updateMovementDetection(rawData, ah, last, now, th) ==
    LET speed == IF Truthy(rawData.hasVel, rawData.velocidad) THEN rawData.velocidad ELSE 0
        speedCriteria == speed > th.minimum_speed
    IN
    With(IF rawData.acc THEN hasSignificantAcceleration(rawData, ah, th)
         ELSE [flag |-> FALSE, accelerationHistory |-> ah], LAMBDA a :
    With(hasGPSMovementCalibrated(rawData, last, now, th), LAMBDA g :
    With(CalibratedConfidence(speedCriteria, a.flag, g.flag), LAMBDA confidence :
       [accelerationHistory |-> a.accelerationHistory,
        lastGPSPoint |-> g.lastGPSPoint,
        movementConfidence |-> confidence,
        isVehicleMoving |-> confidence > 50,
        evidence |-> [hasGPS |-> Truthy(rawData.gps, rawData.lat) /\ Truthy(rawData.gps, rawData.lon),
                      speedCriteria |-> speedCriteria,
                      gpsMotion |-> g.flag, accelMotion |-> a.flag,
                      sustained |-> FALSE]])))

\* enrichBasicData
enrichBasicData(rawData, moving, confidence) ==
    [Spread(rawData) EXCEPT !.vehicle_moving = moving, !.movement_confidence = confidence]

\* determineDrivingContextSinaloa
determineDrivingContextSinaloa(hasSpeed, speed) ==
    IF hasSpeed /\ FracGT(speed, 90) THEN "highway"
    ELSE IF hasSpeed /\ FracGT(speed, 50) THEN "urban_fast"
    ELSE IF hasSpeed /\ FracGT(speed, 20) THEN "urban"
    ELSE IF hasSpeed /\ FracGT(speed, 5) THEN "residential"
    ELSE "stationary"

UrbanFastLimit == 70

\* updateSpeedLimit with the residential limit in every context
updateSpeedLimitResidential(context) == speedLimits.residential

\* updateSpeedLimit: the new currentSpeedLimit
updateSpeedLimit(context) ==
    CASE context = "highway" -> speedLimits.highway
      [] context = "urban_fast" -> UrbanFastLimit
      [] context = "residential" -> speedLimits.residential
      [] OTHER -> speedLimits.urban

\* the noise filter of enrichData for one axis (times 5)
NoiseFiltered(a, noise) == IF Abs(a) > noise THEN 5 * a ELSE 0

\* enrichData: the enriched sample, the speed history and the speed limit
enrichData(rawData, buf, sh, moving, confidence, th) ==
    LET e0 == Spread(rawData)
        e1 == IF rawData.acc
              THEN [e0 EXCEPT !.hasFiltered = TRUE,
                              !.filtered_acceleration =
                                  [x |-> NoiseFiltered(rawData.x, th.acceleration_noise),
                                   y |-> NoiseFiltered(rawData.y, th.acceleration_noise),
                                   z |-> NoiseFiltered(rawData.z, th.acceleration_noise)]]
              ELSE e0
        sh1 == IF rawData.hasVel THEN PushBounded(sh, rawData.velocidad, SpeedHistoryMax) ELSE sh
        e2 == IF rawData.hasVel
              THEN [e1 EXCEPT !.hasFilteredSpeed = TRUE,
                              !.filtered_speed = Frac(SumSeq(sh1), Len(sh1))]
              ELSE e1
        lastPoint == buf[Len(buf)]
        timeDelta == rawData.timestamp - lastPoint.raw.timestamp
        e3 == IF Len(buf) > 0 /\ e2.hasFilteredSpeed
                 /\ timeDelta > 0 /\ lastPoint.hasFilteredSpeed
              THEN LET f1 == e2.filtered_speed
                       f0 == lastPoint.filtered_speed
                   IN [e2 EXCEPT !.hasLongitudinal = TRUE,
                                 !.longitudinal_acceleration =
                                     Frac(50 * (f1.n * f0.d - f0.n * f1.d),
                                          9 * timeDelta * f1.d * f0.d)]
              ELSE e2
        context == determineDrivingContextSinaloa(
                       e3.hasFilteredSpeed /\ ~FracIsZero(e3.filtered_speed), e3.filtered_speed)
        limit == updateSpeedLimit(context)
    IN [data |-> [e3 EXCEPT !.driving_context = context, !.speed_limit = limit,
                            !.vehicle_moving = moving, !.movement_confidence = confidence],
        speedHistory |-> sh1,
        currentSpeedLimit |-> limit]

\* detectDrivingEventsFiltered: the events and the updated last-event-time map
detectDrivingEventsFiltered(data, moving, confidence, times, limit, th, now) ==
    LET speedKnown == data.hasFilteredSpeed /\ ~FracIsZero(data.filtered_speed)
        speed == IF speedKnown THEN data.filtered_speed ELSE ZeroFrac
    IN
    IF ~moving \/ FracLT(speed, th.minimum_speed)
    THEN [events |-> <<>>, lastEventTime |-> times]
    ELSE
    LET minTimeBetweenEvents == th.stability_time
        longitudinal == data.longitudinal_acceleration
        hasLong == data.hasLongitudinal /\ ~FracIsZero(longitudinal)
        accel == hasLong /\ FracGT(longitudinal, th.harsh_acceleration)
                 /\ NotDebounced(times["harsh_acceleration"], now, minTimeBetweenEvents)
        brake == hasLong /\ FracLT(longitudinal, -th.harsh_braking)
                 /\ NotDebounced(times["harsh_braking"], now, minTimeBetweenEvents)
        lateralG == Frac(Abs(data.filtered_acceleration.x), 5)
        turn == data.hasFiltered /\ data.hasFilteredSpeed /\ FracGT(data.filtered_speed, 15)
                /\ FracGT(lateralG, th.aggressive_turn)
                /\ NotDebounced(times["aggressive_turn"], now, minTimeBetweenEvents)
        excess == Frac(data.filtered_speed.n - limit * data.filtered_speed.d,
                       data.filtered_speed.d)
        speeding == speedKnown /\ FracGT(data.filtered_speed, 30)
                    /\ FracGT(excess, th.speeding)
                    /\ NotDebounced(times["speeding"], now,
                                    minTimeBetweenEvents * SpeedingWindowFactor("calibrated"))
        on == [t \in EventTypes |->
                 CASE t = "harsh_acceleration" -> accel
                   [] t = "harsh_braking" -> brake
                   [] t = "aggressive_turn" -> turn
                   [] OTHER -> speeding]
    IN [events |->
           (IF accel THEN <<MkEvent("harsh_acceleration",
                              calculateSeverity("calibrated", longitudinal, th.harsh_acceleration),
                              longitudinal, data, confidence)>> ELSE <<>>)
        \o (IF brake THEN <<MkEvent("harsh_braking",
                              calculateSeverity("calibrated", FracAbs(longitudinal), th.harsh_braking),
                              FracAbs(longitudinal), data, confidence)>> ELSE <<>>)
        \o (IF turn THEN <<MkEvent("aggressive_turn",
                              calculateSeverity("calibrated", lateralG, th.aggressive_turn),
                              lateralG, data, confidence)>> ELSE <<>>)
        \o (IF speeding THEN <<MkEvent("speeding", calculateSpeedingSeverity(excess),
                              excess, data, confidence)>> ELSE <<>>),
        lastEventTime |-> [t \in EventTypes |-> IF on[t] THEN now ELSE times[t]]]

(***************************************************************************)
(* processDataPoint                                                        *)
(***************************************************************************)
NoResult == [returned |-> "nothing", why |-> "", processed |-> Spread(MkRaw("valid", 0, FALSE, 0, 0, FALSE, 0, FALSE, 0, 0, 0)),
             events |-> <<>>, counters |-> ZeroCounters]

NullResult(why) == [NoResult EXCEPT !.returned = "null", !.why = why]

NoEvidence == [hasGPS |-> FALSE, speedCriteria |-> FALSE, gpsMotion |-> FALSE,
               accelMotion |-> FALSE, sustained |-> FALSE]

\* the current engine state as one record
Engine ==
    [thresholds |-> thresholds, eventCounters |-> eventCounters, dataBuffer |-> dataBuffer,
     accelerationHistory |-> accelerationHistory, motionHistory |-> motionHistory,
     speedHistory |-> speedHistory, baselineAcceleration |-> baselineAcceleration,
     lastEventTime |-> lastEventTime, isVehicleMoving |-> isVehicleMoving,
     movementConfidence |-> movementConfidence, gpsAvailable |-> gpsAvailable,
     lastRecordTime |-> lastRecordTime, lastGPSPoint |-> lastGPSPoint,
     currentSpeedLimit |-> currentSpeedLimit, eventListeners |-> eventListeners]

\* the engine as the constructor of variant v leaves it
ConstructedEngine(v) ==
    [thresholds |-> DefaultThresholds(v), eventCounters |-> ZeroCounters, dataBuffer |-> <<>>,
     accelerationHistory |-> <<>>, motionHistory |-> <<>>, speedHistory |-> <<>>,
     baselineAcceleration |-> NoBaseline, lastEventTime |-> NoEventTimes,
     isVehicleMoving |-> FALSE, movementConfidence |-> 0, gpsAvailable |-> FALSE,
     lastRecordTime |-> 0, lastGPSPoint |-> NoGPSPoint,
     currentSpeedLimit |-> speedLimits.default, eventListeners |-> <<>>]

\* emitEvent calling the first registered callback only
emitEventFirstOnly(listeners, event, counters) ==
    [j \in 1..Min(Len(listeners), 1) |->
        [listener |-> j, event |-> event, counters |-> counters,
         threw |-> listeners[j] = "throws"]]

\* emitEvent without the try/catch around each callback: the callbacks
\* registered after a failing one are not called
emitEventAborting(listeners, event, counters) ==
    [j \in {i \in 1..Len(listeners) : \A h \in 1..(i - 1) : listeners[h] # "throws"} |->
        [listener |-> j, event |-> event, counters |-> counters,
         threw |-> listeners[j] = "throws"]]

\* emitEvent: one call per registered callback, a failing callback is caught
emitEvent(listeners, event, counters) ==
    [j \in 1..Len(listeners) |->
        [listener |-> j, event |-> event, counters |-> counters,
         threw |-> listeners[j] = "throws"]]

\* events.forEach of processDataPoint with no counter incremented
RECURSIVE countAndEmitUncounted(_, _, _, _)
countAndEmitUncounted(events, counters, listeners, calls) ==
    IF events = <<>> THEN [eventCounters |-> counters, notified |-> calls]
    ELSE countAndEmitUncounted(Tail(events), counters, listeners,
                               calls \o emitEvent(listeners, Head(events), counters))

\* events.forEach counting every event of the sample before the first
\* observer is called
countAndEmitBatched(events, counters, listeners, calls) ==
    LET final == [t \in EventTypes |->
                     counters[t] + Cardinality({i \in 1..Len(events) : events[i].type = t})]
        each == Len(listeners)
    IN [eventCounters |-> final,
        notified |-> calls \o [k \in 1..(Len(events) * each) |->
                                  emitEvent(listeners, events[((k - 1) \div each) + 1],
                                            final)[((k - 1) % each) + 1]]]

\* events.forEach of processDataPoint: the counters and the observer calls
RECURSIVE countAndEmit(_, _, _, _)
countAndEmit(events, counters, listeners, calls) ==
    IF events = <<>> THEN [eventCounters |-> counters, notified |-> calls]
    ELSE LET event == Head(events)
             counters1 == [counters EXCEPT ![event.type] = @ + 1]
         IN countAndEmit(Tail(events), counters1, listeners,
                         calls \o emitEvent(listeners, event, counters1))

\* the body of processDataPoint (hybrid) once the sample passed both filters
acceptHybrid(rawData, e, now) ==
    With(updateHybridMovementDetection(rawData, e.accelerationHistory,
             e.baselineAcceleration, e.motionHistory, e.lastGPSPoint, now, e.thresholds),
         LAMBDA m :
    With(enrichDataFieldTested(rawData, e.dataBuffer, m.accelerationHistory,
             m.baselineAcceleration, m.isVehicleMoving, m.movementConfidence, m.gpsAvailable),
         LAMBDA processedData :
    With(detectEventsHybrid(processedData, m.isVehicleMoving, e.lastEventTime,
             e.currentSpeedLimit, e.thresholds, now),
         LAMBDA d :
    With(countAndEmit(d.events, e.eventCounters, e.eventListeners, <<>>),
         LAMBDA c :
       [engine |-> [e EXCEPT !.gpsAvailable = m.gpsAvailable,
                             !.accelerationHistory = m.accelerationHistory,
                             !.baselineAcceleration = m.baselineAcceleration,
                             !.motionHistory = m.motionHistory,
                             !.lastGPSPoint = m.lastGPSPoint,
                             !.movementConfidence = m.movementConfidence,
                             !.isVehicleMoving = m.isVehicleMoving,
                             !.lastEventTime = d.lastEventTime,
                             !.dataBuffer = updateBuffer(e.dataBuffer, processedData, bufferSize("hybrid")),
                             !.eventCounters = c.eventCounters],
        processed |-> processedData, events |-> d.events, notified |-> c.notified,
        evidence |-> m.evidence]))))

\* the body of processDataPoint (calibrated) once the sample passed both filters
acceptCalibrated(rawData, e, now) ==
    With(updateMovementDetection(rawData, e.accelerationHistory, e.lastGPSPoint, now,
                                 e.thresholds),
         LAMBDA m :
    With([e EXCEPT !.accelerationHistory = m.accelerationHistory,
                   !.lastGPSPoint = m.lastGPSPoint,
                   !.movementConfidence = m.movementConfidence,
                   !.isVehicleMoving = m.isVehicleMoving],
         LAMBDA e1 :
       IF ~m.isVehicleMoving
       THEN LET basicData == enrichBasicData(rawData, m.isVehicleMoving, m.movementConfidence)
            IN [engine |-> [e1 EXCEPT !.dataBuffer =
                                updateBuffer(e.dataBuffer, basicData, bufferSize("calibrated"))],
                processed |-> basicData, events |-> <<>>, notified |-> <<>>,
                evidence |-> m.evidence]
       ELSE
       With(enrichData(rawData, e.dataBuffer, e.speedHistory, m.isVehicleMoving,
                       m.movementConfidence, e.thresholds),
            LAMBDA r :
       With(detectDrivingEventsFiltered(r.data, m.isVehicleMoving, m.movementConfidence,
                e.lastEventTime, r.currentSpeedLimit, e.thresholds, now),
            LAMBDA d :
       With(countAndEmit(d.events, e.eventCounters, e.eventListeners, <<>>),
            LAMBDA c :
               [engine |-> [e1 EXCEPT !.speedHistory = r.speedHistory,
                                      !.currentSpeedLimit = r.currentSpeedLimit,
                                      !.lastEventTime = d.lastEventTime,
                                      !.dataBuffer = updateBuffer(e.dataBuffer, r.data,
                                                                  bufferSize("calibrated")),
                                      !.eventCounters = c.eventCounters],
                processed |-> r.data, events |-> d.events, notified |-> c.notified,
                evidence |-> m.evidence]))) ))

\* the frequency filter one time unit short
RateGatedShort(now, last, v) == now - last < recordInterval(v) - 1

\* the frequency filter of processDataPoint
RateGated(now, last, v) == now - last < recordInterval(v)

\* processDataPoint as a function of the engine state: the new engine state,
\* the returned value, the observer calls and the evidence flags
processDataPoint(v, rawData, e, now) ==
    IF RateGated(now, e.lastRecordTime, v)
    THEN [engine |-> e, result |-> NullResult("gated"), notified |-> <<>>,
          evidence |-> NoEvidence]
    ELSE LET e1 == [e EXCEPT !.lastRecordTime = now]
         IN IF ~validateDataStructure(rawData)
            THEN [engine |-> e1, result |-> NullResult("invalid"), notified |-> <<>>,
                  evidence |-> NoEvidence]
            ELSE With(IF v = "hybrid" THEN acceptHybrid(rawData, e1, now)
                      ELSE acceptCalibrated(rawData, e1, now), LAMBDA a :
                    [engine |-> a.engine,
                     result |-> [returned |-> "object", why |-> "",
                                 processed |-> a.processed, events |-> a.events,
                                 counters |-> a.engine.eventCounters],
                     notified |-> a.notified,
                     evidence |-> a.evidence])

(***************************************************************************)
(* History kept for stating the properties (not engine state).  A session  *)
(* starts at construction and at every resetCounters.                      *)
(***************************************************************************)
WarmupCap == 6

NoHist ==
    [lastAccepted |-> 0,          \* time of the last call that returned an object
     engineChanged |-> FALSE,     \* the last processDataPoint call changed engine state
     touched |-> FALSE,           \* ... changed something else than lastRecordTime
     emitted |-> [t \in EventTypes |-> 0],   \* events of the type in the last call
     lastEmit |-> [t \in EventTypes |-> 0],  \* time of the last emission of the type
     prevEmit |-> [t \in EventTypes |-> 0],  \* time of the emission before it
     accelSeen |-> 0,             \* accepted samples carrying x, y, z this session
     stream |-> "none",           \* "const": only GPS-less samples of one reading so far
     reading |-> NoVector,
     noGps |-> TRUE,              \* every accepted sample of the session was GPS-less
     window |-> <<>>,             \* variation > motion_threshold, the last 8 accepted samples
     everMoving |-> FALSE,        \* some accepted sample was classified moving
     anyEvent |-> FALSE,          \* some event was emitted this session
     total |-> [t \in EventTypes |-> 0],     \* events of the type returned this session
     populated |-> FALSE,         \* the last reset found every field it clears in use
     lastSet |-> [k \in {} |-> 0],           \* the argument of the last setThresholds
     resets |-> 0, sets |-> 0]

CountTrue(w) == Cardinality({i \in 1..Len(w) : w[i]})

HistAfterProcess(h, rawData, e, r, now) ==
    LET accepted == r.result.returned = "object"
        n == r.engine
        types == {r.result.events[i].type : i \in 1..Len(r.result.events)}
        vec == [x |-> rawData.x, y |-> rawData.y, z |-> rawData.z]
        gpsLess == ~rawData.gps /\ ~rawData.hasVel
        exceeds == rawData.acc /\ n.baselineAcceleration.set
                   /\ VariationExceeds(vec, n.baselineAcceleration, n.thresholds.motion_threshold)
        h1 == [h EXCEPT !.engineChanged = (n # e),
                        !.touched = ([n EXCEPT !.lastRecordTime = 0] # [e EXCEPT !.lastRecordTime = 0]),
                        !.emitted = [t \in EventTypes |->
                                       Cardinality({i \in 1..Len(r.result.events) :
                                                       r.result.events[i].type = t})]]
    IN IF ~accepted THEN h1
       ELSE [h1 EXCEPT !.lastAccepted = now,
                       !.lastEmit = [t \in EventTypes |-> IF t \in types THEN now ELSE h.lastEmit[t]],
                       !.prevEmit = [t \in EventTypes |-> IF t \in types THEN h.lastEmit[t] ELSE h.prevEmit[t]],
                       !.accelSeen = IF rawData.acc THEN Min(h.accelSeen + 1, WarmupCap) ELSE @,
                       !.stream = IF ~gpsLess \/ ~rawData.acc THEN "broken"
                                  ELSE IF h.stream = "none" THEN "const"
                                  ELSE IF h.stream = "const" /\ h.reading = vec THEN "const"
                                  ELSE "broken",
                       !.reading = IF h.stream = "none" THEN vec ELSE @,
                       !.noGps = h.noGps /\ gpsLess,
                       !.window = PushBounded(h.window, exceeds, BufferSizeHybrid),
                       !.everMoving = h.everMoving \/ n.isVehicleMoving,
                       !.anyEvent = h.anyEvent \/ types # {},
                       !.total = [t \in EventTypes |-> h.total[t] + h1.emitted[t]]]

HistAfterReset(h, e) ==
    [NoHist EXCEPT !.lastAccepted = h.lastAccepted, !.resets = h.resets + 1, !.sets = h.sets,
                   !.lastSet = h.lastSet,
                   !.populated = /\ \A t \in EventTypes : e.eventCounters[t] > 0
                                 /\ \A t \in EventTypes : e.lastEventTime[t] > 0
                                 /\ e.dataBuffer # <<>> /\ e.accelerationHistory # <<>>
                                 /\ e.motionHistory # <<>> /\ e.baselineAcceleration.set
                                 /\ e.lastGPSPoint.set
                                 /\ e.isVehicleMoving /\ e.movementConfidence > 0]

HistAfterSet(h, old, new, newThresholds) ==
    IF old.stability_time = new.stability_time
    THEN [h EXCEPT !.sets = @ + 1, !.lastSet = newThresholds]
    ELSE [h EXCEPT !.sets = @ + 1, !.lastSet = newThresholds,
                   !.lastEmit = [t \in EventTypes |-> 0],
                   !.prevEmit = [t \in EventTypes |-> 0]]

(***************************************************************************)
(* Session statistics and the counters handed to the caller                *)
(***************************************************************************)
\* allData.filter(keep).length
CountWhere(allData, keep(_)) == Cardinality({i \in 1..Len(allData) : keep(allData[i])})

\* calculateTotalTime: last timestamp minus first
calculateTotalTime(data) ==
    IF Len(data) < 2 THEN 0 ELSE data[Len(data)].raw.timestamp - data[1].raw.timestamp

\* calculateTotalDistance (calibrated): the distances between consecutive
\* points that carry a position, in metres
RECURSIVE DistanceFrom(_, _, _, _)
DistanceFrom(data, i, hasLast, last) ==
    IF i > Len(data) THEN 0
    ELSE IF Truthy(data[i].raw.gps, data[i].raw.lat) /\ Truthy(data[i].raw.gps, data[i].raw.lon)
         THEN (IF hasLast
               THEN calculateDistance(last.lat, last.lon, data[i].raw.lat, data[i].raw.lon)
               ELSE 0) + DistanceFrom(data, i + 1, TRUE, data[i].raw)
         ELSE DistanceFrom(data, i + 1, hasLast, last)

calculateTotalDistance(data) == DistanceFrom(data, 1, FALSE, NoGPSPoint)

\* Utils.formatNumber(num, 2) of a non-negative quotient: the decimal string
\* num.toFixed(2), given as its number of hundredths
formatNumber(num) == (200 * num.n + num.d) \div (2 * num.d)

\* calculateEventsPerKm (calibrated): {} for a distance of 0, otherwise the
\* formatted rates; total_events_per_km is the one read further on
calculateEventsPerKm(e, totalDistanceMeters) ==
    IF totalDistanceMeters = 0
    THEN [has |-> FALSE, total_events_per_km |-> 0]
    ELSE [has |-> TRUE,
          total_events_per_km |->
              formatNumber(Frac(1000 * (e.eventCounters.harsh_acceleration
                                        + e.eventCounters.harsh_braking
                                        + e.eventCounters.aggressive_turn
                                        + e.eventCounters.speeding),
                                totalDistanceMeters))]

\* calculateRiskScore (calibrated): parseFloat of the formatted total (0 for
\* an absent one), in hundredths; the score is Math.round of the sum
calculateRiskScore(eventsPerKm) ==
    LET totalEventsPerKm == IF eventsPerKm.has THEN eventsPerKm.total_events_per_km ELSE 0
    IN IF totalEventsPerKm > 300
       THEN [level |-> "high",
             score |-> (2 * (7000 + Min(totalEventsPerKm * 5, 3000)) + 100) \div 200]
       ELSE IF totalEventsPerKm > 100
       THEN [level |-> "moderate",
             score |-> (2 * (3000 + totalEventsPerKm * 20) + 100) \div 200]
       ELSE [level |-> "low", score |-> (2 * totalEventsPerKm * 30 + 100) \div 200]

\* events_summary of generateSessionStats
EventsSummary(counters) ==
    [total_events |-> counters.harsh_acceleration + counters.harsh_braking
                      + counters.aggressive_turn + counters.speeding,
     harsh_acceleration |-> counters.harsh_acceleration,
     harsh_braking |-> counters.harsh_braking,
     aggressive_turns |-> counters.aggressive_turn,
     speeding_events |-> counters.speeding]

\* generateSessionStats(allData) of the engine e.  The record counts, the
\* elapsed time (and the distance, calibrated), the sum of the confidences,
\* the events summary, and the numerator and denominator of the events rate
\* (per moving time, hybrid; per distance, calibrated; rated tells whether
\* the code divides).  The percentages, averages and labels the code derives
\* from these are left out.
generateSessionStats(v, e, allData) ==
    IF Len(allData) = 0
    THEN [error |-> TRUE]
    ELSE LET moving == SelectSeq(allData, LAMBDA d : d.vehicle_moving)
             distance == IF v = "hybrid" THEN 0 ELSE calculateTotalDistance(allData)
         IN [error |-> FALSE,
             total_records |-> Len(allData),
             moving_records |-> Len(moving),
             stationary_records |-> Len(allData) - Len(moving),
             gps_records |-> IF v = "hybrid"
                             THEN CountWhere(allData, LAMBDA d : d.gps_available) ELSE 0,
             accel_only_records |-> IF v = "hybrid"
                                    THEN CountWhere(allData, LAMBDA d : ~d.gps_available
                                                                      /\ d.vehicle_moving)
                                    ELSE 0,
             total_time |-> calculateTotalTime(allData),
             total_distance |-> distance,
             confidence_sum |-> SumSeq([i \in 1..Len(allData) |-> allData[i].movement_confidence]),
             events_summary |-> EventsSummary(e.eventCounters),
             events_rate |-> IF v = "hybrid"
                             THEN [rated |-> Len(moving) > 0,
                                   events |-> EventsSummary(e.eventCounters).total_events,
                                   over |-> calculateTotalTime(moving)]
                             ELSE [rated |-> distance # 0,
                                   events |-> EventsSummary(e.eventCounters).total_events,
                                   over |-> distance],
             risk_assessment |-> IF v = "hybrid"
                                 THEN [level |-> "none", score |-> 0]
                                 ELSE calculateRiskScore(calculateEventsPerKm(e, distance))]

\* mergeWithLastRecord without its else-branch: a gps record is left as it is
mergeWithLastRecordMotionOnly(newRecord, data) ==
    IF data = <<>> THEN newRecord
    ELSE LET lastRecord == data[Len(data)].raw
         IN IF newRecord.acc /\ ~newRecord.gps /\ Truthy(lastRecord.gps, lastRecord.lat)
            THEN [newRecord EXCEPT !.gps = TRUE, !.lat = lastRecord.lat, !.lon = lastRecord.lon,
                                   !.hasVel = lastRecord.hasVel,
                                   !.velocidad = lastRecord.velocidad]
            ELSE newRecord

\* DrivingMonitorApp.mergeWithLastRecord with the last element of this.data:
\* a motion record (x, y, z, no position) takes lat, lon and velocidad of a
\* last record with a truthy lat, a gps record takes x, y, z of a last record
\* that has an x
mergeWithLastRecord(newRecord, data) ==
    IF data = <<>> THEN newRecord
    ELSE LET lastRecord == data[Len(data)].raw
         IN IF newRecord.acc /\ ~newRecord.gps /\ Truthy(lastRecord.gps, lastRecord.lat)
            THEN [newRecord EXCEPT !.gps = TRUE, !.lat = lastRecord.lat, !.lon = lastRecord.lon,
                                   !.hasVel = lastRecord.hasVel,
                                   !.velocidad = lastRecord.velocidad]
            ELSE IF newRecord.gps /\ ~newRecord.acc /\ lastRecord.acc
            THEN [newRecord EXCEPT !.acc = TRUE, !.x = lastRecord.x, !.y = lastRecord.y,
                                   !.z = lastRecord.z]
            ELSE newRecord

\* what the caller holds of a counters object: taken, it has received one;
\* own, the object is the engine's this.eventCounters itself and reads as the
\* engine's counts; otherwise it is an object of its own with the counts
\* value; edited, the caller has written to it
NoCounters == [taken |-> FALSE, own |-> FALSE, edited |-> FALSE, value |-> ZeroCounters]

\* the counts read through the held object
Held(c, engineCounters) == IF c.own THEN engineCounters ELSE c.value

\* the held object once this.eventCounters has been assigned a new object
Detached(c, engineCounters) ==
    IF c.own THEN [c EXCEPT !.own = FALSE, !.value = engineCounters] ELSE c

\* getCurrentCounters returning this.eventCounters itself
getCurrentCountersAliased(e) ==
    [taken |-> TRUE, own |-> TRUE, edited |-> FALSE, value |-> e.eventCounters]

\* getCurrentCounters: { ...this.eventCounters }
getCurrentCounters(e) ==
    [taken |-> TRUE, own |-> FALSE, edited |-> FALSE, value |-> e.eventCounters]

\* DrivingMonitorApp before a recording: no samples, no counters, no statistics
NoApp == [data |-> <<>>, counters |-> NoCounters, stats |-> [error |-> TRUE]]

(***************************************************************************)
(* The state machine                                                       *)
(***************************************************************************)
StartTime == 4

\* the engine of variant v with the events of a drive counted
InitCounted(v, counted) ==
    /\ variant = v
    /\ clock = StartTime
    /\ thresholds = DefaultThresholds(v)
    /\ eventCounters = counted
    /\ dataBuffer = <<>>
    /\ accelerationHistory = <<>>
    /\ motionHistory = <<>>
    /\ speedHistory = <<>>
    /\ baselineAcceleration = NoBaseline
    /\ lastEventTime = NoEventTimes
    /\ isVehicleMoving = FALSE
    /\ movementConfidence = 0
    /\ gpsAvailable = FALSE
    /\ lastRecordTime = 0
    /\ lastGPSPoint = NoGPSPoint
    /\ currentSpeedLimit = speedLimits.default
    /\ eventListeners = <<>>
    /\ op = [name |-> "constructor", at |-> StartTime]
    /\ arg = MkRaw("valid", 0, FALSE, 0, 0, FALSE, 0, FALSE, 0, 0, 0)
    /\ result = NoResult
    /\ notified = <<>>
    /\ evidence = NoEvidence
    /\ hist = [NoHist EXCEPT !.total = counted]
    /\ app = NoApp

InitVariant(v) == InitCounted(v, ZeroCounters)

SetEngine(n) ==
    /\ thresholds' = n.thresholds
    /\ eventCounters' = n.eventCounters
    /\ dataBuffer' = n.dataBuffer
    /\ accelerationHistory' = n.accelerationHistory
    /\ motionHistory' = n.motionHistory
    /\ speedHistory' = n.speedHistory
    /\ baselineAcceleration' = n.baselineAcceleration
    /\ lastEventTime' = n.lastEventTime
    /\ isVehicleMoving' = n.isVehicleMoving
    /\ movementConfidence' = n.movementConfidence
    /\ gpsAvailable' = n.gpsAvailable
    /\ lastRecordTime' = n.lastRecordTime
    /\ lastGPSPoint' = n.lastGPSPoint
    /\ currentSpeedLimit' = n.currentSpeedLimit
    /\ eventListeners' = n.eventListeners

\* time passes
Tick(step, max) ==
    /\ clock + step <= max
    /\ clock' = clock + step
    /\ UNCHANGED <<variant, engine, op, arg, result, notified, evidence, hist, app>>

\* processDataPoint(rawData); the caller keeps the accepted sample or not
ProcessCall(rawData, keeps) ==
    \E r \in {processDataPoint(variant, rawData, Engine, clock)} :
       /\ SetEngine(r.engine)
       /\ op' = [name |-> "processDataPoint", at |-> clock]
       /\ arg' = rawData
       /\ result' = r.result
       /\ notified' = r.notified
       /\ evidence' = r.evidence
       /\ hist' = HistAfterProcess(hist, rawData, Engine, r, clock)
       /\ app' = IF keeps /\ r.result.returned = "object"
                 THEN [app EXCEPT !.data = Append(@, r.result.processed)]
                 ELSE app
       /\ UNCHANGED <<variant, clock>>

ProcessDataPoint(rawData) == ProcessCall(rawData, FALSE)

\* resetCounters that leaves the baseline and the last GPS point in place
resetCountersPartial(v, e) ==
    [e EXCEPT !.eventCounters = [t \in EventTypes |-> 0],
              !.dataBuffer = <<>>,
              !.accelerationHistory = <<>>,
              !.motionHistory = <<>>,
              !.speedHistory = <<>>,
              !.lastEventTime = NoEventTimes,
              !.isVehicleMoving = FALSE,
              !.movementConfidence = 0]

\* resetCounters that drops the oldest buffered sample instead of all of them
resetCountersShifting(v, e) ==
    [resetCountersPartial(v, e) EXCEPT
        !.dataBuffer = IF e.dataBuffer = <<>> THEN <<>> ELSE Tail(e.dataBuffer),
        !.baselineAcceleration = NoBaseline,
        !.lastGPSPoint = NoGPSPoint]

\* resetCounters replacing the engine by a newly constructed one
resetCountersConstructing(v, e) == ConstructedEngine(v)

\* resetCounters of the two variants
resetCounters(v, e) ==
    LET e1 == [e EXCEPT !.eventCounters = [t \in EventTypes |-> 0],
                        !.dataBuffer = <<>>,
                        !.accelerationHistory = <<>>,
                        !.lastGPSPoint = NoGPSPoint,
                        !.lastEventTime = NoEventTimes,
                        !.isVehicleMoving = FALSE,
                        !.movementConfidence = 0]
    IN IF v = "hybrid"
       THEN [e1 EXCEPT !.motionHistory = <<>>, !.baselineAcceleration = NoBaseline]
       ELSE [e1 EXCEPT !.speedHistory = <<>>]

\* resetCounters(); this.eventCounters is assigned a new object, so that an
\* object that was the engine's own keeps the old counts; the caller empties
\* its list of samples or not
ResetCall(empties) ==
    /\ SetEngine(resetCounters(variant, Engine))
    /\ op' = [name |-> "resetCounters", at |-> clock]
    /\ hist' = HistAfterReset(hist, Engine)
    /\ result' = NoResult
    /\ notified' = <<>>
    /\ app' = [app EXCEPT !.counters = Detached(@, eventCounters),
                          !.data = IF empties THEN <<>> ELSE @]
    /\ UNCHANGED <<variant, clock, arg, evidence>>

ResetCounters == ResetCall(FALSE)

\* setThresholds with the two spreads exchanged, { ...newThresholds,
\* ...this.thresholds }: the current value of a field wins
setThresholdsKeeping(old, newThresholds) ==
    [k \in DOMAIN old \cup DOMAIN newThresholds |->
        IF k \in DOMAIN old THEN old[k] ELSE newThresholds[k]]

\* { ...this.thresholds, ...newThresholds }
setThresholds(old, newThresholds) ==
    [k \in DOMAIN old \cup DOMAIN newThresholds |->
        IF k \in DOMAIN newThresholds THEN newThresholds[k] ELSE old[k]]

SetThresholds(newThresholds) ==
    /\ SetEngine([Engine EXCEPT !.thresholds = setThresholds(thresholds, newThresholds)])
    /\ op' = [name |-> "setThresholds", at |-> clock]
    /\ hist' = HistAfterSet(hist, thresholds, setThresholds(thresholds, newThresholds),
                            newThresholds)
    /\ result' = NoResult
    /\ notified' = <<>>
    /\ UNCHANGED <<variant, clock, arg, evidence, app>>

\* getCurrentCounters()
GetCurrentCounters ==
    /\ app' = [app EXCEPT !.counters = getCurrentCounters(Engine)]
    /\ op' = [name |-> "getCurrentCounters", at |-> clock]
    /\ result' = NoResult
    /\ notified' = <<>>
    /\ UNCHANGED <<variant, clock, engine, arg, evidence, hist>>

\* the caller writes to the object getCurrentCounters returned: one more
\* event of type t
ModifyCounters(t) ==
    /\ app.counters.taken /\ ~app.counters.edited
    /\ app' = [app EXCEPT !.counters.edited = TRUE,
                          !.counters.value = IF app.counters.own THEN @
                                             ELSE [@ EXCEPT ![t] = @ + 1]]
    /\ SetEngine([Engine EXCEPT !.eventCounters = IF app.counters.own
                                                   THEN [@ EXCEPT ![t] = @ + 1] ELSE @])
    /\ op' = [name |-> "modifyCounters", at |-> clock]
    /\ result' = NoResult
    /\ notified' = <<>>
    /\ UNCHANGED <<variant, clock, arg, evidence, hist>>

\* generateSessionStats(allData)
GenerateSessionStats(allData) ==
    /\ app' = [app EXCEPT !.stats = generateSessionStats(variant, Engine, allData)]
    /\ op' = [name |-> "generateSessionStats", at |-> clock]
    /\ result' = NoResult
    /\ notified' = <<>>
    /\ UNCHANGED <<variant, clock, engine, arg, evidence, hist>>

\* addEventListener('drivingEvent', callback); a callback either returns or throws
Callbacks == {"ok", "throws"}

AddEventListener(callback) ==
    /\ SetEngine([Engine EXCEPT !.eventListeners = Append(eventListeners, callback)])
    /\ op' = [name |-> "addEventListener", at |-> clock]
    /\ result' = NoResult
    /\ notified' = <<>>
    /\ UNCHANGED <<variant, clock, arg, evidence, hist, app>>

(***************************************************************************)
(* Inputs.  env names the harness that drives the engine in a behaviour:   *)
(*   "api"    any caller: every kind of sample at any time, reset at any   *)
(*            time; while setting up (DrivingMonitorApp.                   *)
(*            setupDataProcessor), before the first sample passes the      *)
(*            frequency filter, one setThresholds and one addEventListener *)
(*            per callback;                                                *)
(*   "drive"  a trip: samples with a GPS fix and an accelerometer reading, *)
(*            delivered no faster than the recording interval, the         *)
(*            stability time possibly shortened before the trip, and      *)
(*            resetCounters when the trip is over;                         *)
(*   "stream" accelerometer-only operation: GPS-less samples, one per      *)
(*            recording interval (hybrid variant), thresholds set before   *)
(*            the first sample;                                            *)
(*   "scenario" a phone lying flat and at rest (x = y = 0), then one jolt  *)
(*            along y: one sample per recording interval (hybrid variant,  *)
(*            default thresholds), the jolt with a speed reading and with  *)
(*            or without a position;                                       *)
(*   "app"    DrivingMonitorApp: recordDataPoint keeps every accepted      *)
(*            sample in this.data, startRecording empties it and calls     *)
(*            resetCounters, the counters are read with getCurrentCounters *)
(*            and the statistics of this.data with generateSessionStats;   *)
(*            the caller may write to the counters object it received;     *)
(*   "session" accelerometer-only recording (hybrid variant) in which,     *)
(*            once the baseline is established, the thresholds are         *)
(*            changed, the statistics are produced and the recording is    *)
(*            restarted; a sample may lack the accelerometer reading;      *)
(*   "recording" the two sensors of DrivingMonitorApp: a devicemotion      *)
(*            reading (x, y, z) or a GPS reading (lat, lon, velocidad) at  *)
(*            any time, merged with the last recorded point before it is   *)
(*            given to processDataPoint; a recording may be restarted;     *)
(*   "risk"   the statistics panel after a drive (calibrated variant):     *)
(*            the engine holds the counters of the drive, and              *)
(*            generateSessionStats is given the samples kept of it.        *)
(***************************************************************************)
Meridian == 1

GpsPart(S) == {[gps |-> FALSE, lat |-> 0, lon |-> 0, hasVel |-> FALSE, velocidad |-> 0]}
              \cup {[gps |-> TRUE, lat |-> f.lat, lon |-> Meridian, hasVel |-> TRUE,
                     velocidad |-> f.velocidad] : f \in S}

AccelPart(S) == {[acc |-> FALSE, x |-> 0, y |-> 0, z |-> 0]}
                \cup {[acc |-> TRUE, x |-> a.x, y |-> a.y, z |-> a.z] : a \in S}

\* the structurally valid samples built from the readings, stamped ts
ValidSamples(G, A, ts) ==
    {MkRaw("valid", ts, g.gps, g.lat, g.lon, g.hasVel, g.velocidad, a.acc, a.x, a.y, a.z) :
        g \in G, a \in A}

\* one sample per way of failing validateDataStructure
InvalidSamples(ts) ==
    {MkRaw(k, ts, FALSE, 0, 0, FALSE, 0, FALSE, 0, 0, 0) : k \in SampleKinds \ {"valid"}}

\* GPS readings (a position of the meridian, the reported speed) and
\* accelerometer readings (x, y, z) of each harness
ApiFixes == {[lat |-> 1, velocidad |-> 10], [lat |-> 2, velocidad |-> 140]}

ApiReadings == {[x |-> 60, y |-> 30, z |-> 98]}

DriveFixes == {[lat |-> 1, velocidad |-> 10], [lat |-> 2, velocidad |-> 50],
               [lat |-> 1, velocidad |-> 140]}

DriveReadings == {[x |-> 10, y |-> 10, z |-> 98], [x |-> 60, y |-> 30, z |-> 98]}

StreamReadings == {[x |-> 10, y |-> 10, z |-> 98], [x |-> 60, y |-> 30, z |-> 98],
                   [x |-> 0, y |-> 50, z |-> 98]}

\* the reading at rest and the jolt, 0.1 m/s^2, and the speed of the jolt, km/h
RestReading == [x |-> 0, y |-> 0, z |-> 98]

JoltReading == [x |-> 0, y |-> 65, z |-> 98]

JoltSpeed == 40

\* the sample at rest without GPS fields, and the jolt with velocidad alone
\* or with lat, lon and velocidad
ScenarioSamples(ts) ==
    {MkRaw("valid", ts, FALSE, 0, 0, FALSE, 0, TRUE, RestReading.x, RestReading.y, RestReading.z),
     MkRaw("valid", ts, FALSE, 0, 0, TRUE, JoltSpeed, TRUE, JoltReading.x, JoltReading.y, JoltReading.z),
     MkRaw("valid", ts, TRUE, 1, Meridian, TRUE, JoltSpeed, TRUE, JoltReading.x, JoltReading.y, JoltReading.z)}

\* samples with a GPS fix and an accelerometer reading
AppSamples(ts) ==
    {r \in ValidSamples(GpsPart(ApiFixes), AccelPart(DriveReadings), ts) : r.gps /\ r.acc}

\* GPS-less samples with or without an accelerometer reading
SessionSamples(ts) == ValidSamples(GpsPart({}), AccelPart(DriveReadings), ts)

\* the records of onDeviceMotion (type 'motion') and onGPSUpdate (type 'gps')
SensorReadings(ts) ==
    {r \in ValidSamples(GpsPart(ApiFixes \cup {[lat |-> 2, velocidad |-> 0]}),
                        AccelPart(DriveReadings), ts) : r.gps # r.acc}

ApiSamples(ts) ==
    ValidSamples(GpsPart(ApiFixes), AccelPart(ApiReadings), ts) \cup InvalidSamples(ts)

DriveSamples(ts) ==
    {r \in ValidSamples(GpsPart(DriveFixes), AccelPart(DriveReadings), ts) : r.gps /\ r.acc}

StreamSamples(ts) ==
    {r \in ValidSamples(GpsPart({}), AccelPart(StreamReadings), ts) : r.acc}

\* the overrides of DrivingMonitorApp.setupDataProcessor, a shorter
\* stability time, and a degenerate (negative) configuration
AppOverrides == [harsh_acceleration |-> 25, harsh_braking |-> 25, aggressive_turn |-> 40,
                 speeding |-> 15]

ShortStability == [stability_time |-> 2]

Degenerate == [motion_threshold |-> -10, harsh_acceleration |-> -10]

MaxClockApi == 8
MaxClockDrive == 16
MaxClockStream == 31
MaxResets == 1
MaxClockScenario == 22
MaxClockApp == 13
MaxClockSession == 22
MaxClockRecording == 19

Due == ~RateGated(clock, lastRecordTime, variant)

Fresh == op.name = "constructor"

SettingUp == lastRecordTime = 0

\* env = "api"
Advance == env = "api" /\ Tick(1, MaxClockApi) /\ UNCHANGED env

Process == env = "api" /\ UNCHANGED env
           /\ \E rawData \in ApiSamples(clock) : ProcessDataPoint(rawData)

Reset == env = "api" /\ hist.resets < MaxResets /\ ResetCounters /\ UNCHANGED env

Configure == env = "api" /\ SettingUp /\ hist.sets = 0 /\ UNCHANGED env
             /\ \E p \in {AppOverrides, Degenerate} : SetThresholds(p)

Subscribe == env = "api" /\ SettingUp /\ UNCHANGED env
             /\ \E cb \in Callbacks :
                   /\ \A j \in 1..Len(eventListeners) : eventListeners[j] # cb
                   /\ AddEventListener(cb)

\* env = "drive"
AdvanceDrive == env = "drive" /\ Tick(1, MaxClockDrive) /\ UNCHANGED env

ProcessDrive == env = "drive" /\ Due /\ UNCHANGED env
                /\ \E rawData \in DriveSamples(clock) : ProcessDataPoint(rawData)

ConfigureDrive == env = "drive" /\ Fresh /\ UNCHANGED env
                  /\ SetThresholds(ShortStability)

\* the trip is over: the next recording starts with resetCounters
ResetDrive == env = "drive" /\ clock = MaxClockDrive /\ hist.resets < MaxResets
              /\ ResetCounters /\ UNCHANGED env

\* env = "stream"
AdvanceStream == env = "stream" /\ ~Due /\ Tick(RecordIntervalHybrid, MaxClockStream) /\ UNCHANGED env

ProcessStream == env = "stream" /\ Due /\ UNCHANGED env
                 /\ \E rawData \in StreamSamples(clock) : ProcessDataPoint(rawData)

ConfigureStream == env = "stream" /\ Fresh /\ UNCHANGED env
                   /\ \E p \in {AppOverrides, Degenerate} : SetThresholds(p)

\* env = "scenario"
AdvanceScenario == env = "scenario" /\ ~Due /\ Tick(RecordIntervalHybrid, MaxClockScenario)
                   /\ UNCHANGED env

ProcessScenario == env = "scenario" /\ Due /\ UNCHANGED env
                   /\ \E rawData \in ScenarioSamples(clock) : ProcessDataPoint(rawData)

\* env = "app"
AdvanceApp == env = "app" /\ ~Due /\ Tick(recordInterval(variant), MaxClockApp)
              /\ UNCHANGED env

\* recordDataPoint: if (result) this.data.push(result.processed)
RecordDataPoint == env = "app" /\ Due /\ UNCHANGED env
                   /\ \E rawData \in AppSamples(clock) : ProcessCall(rawData, TRUE)

\* startRecording: this.data = []; this.dataProcessor.resetCounters()
StartRecording == env = "app" /\ hist.resets < MaxResets /\ ResetCall(TRUE) /\ UNCHANGED env

SaveSession == env = "app" /\ GetCurrentCounters /\ UNCHANGED env

EditSaved == env = "app" /\ UNCHANGED env /\ \E t \in EventTypes : ModifyCounters(t)

ShowStats == env = "app" /\ GenerateSessionStats(app.data) /\ UNCHANGED env

\* env = "session"
AdvanceSession == env = "session" /\ ~Due /\ Tick(RecordIntervalHybrid, MaxClockSession)
                  /\ UNCHANGED env

RecordSession == env = "session" /\ Due /\ UNCHANGED env
                 /\ \E rawData \in SessionSamples(clock) : ProcessCall(rawData, TRUE)

TuneSession == env = "session" /\ baselineAcceleration.set /\ hist.sets = 0 /\ UNCHANGED env
               /\ SetThresholds(AppOverrides)

ReviewSession == env = "session" /\ baselineAcceleration.set /\ UNCHANGED env
                 /\ GenerateSessionStats(app.data)

RestartSession == env = "session" /\ baselineAcceleration.set /\ hist.resets < MaxResets
                  /\ ResetCall(TRUE) /\ UNCHANGED env

\* env = "recording"
AdvanceRecording == env = "recording" /\ ~Due /\ UNCHANGED env
                    /\ Tick(recordInterval(variant), MaxClockRecording)

\* recordDataPoint(sensorData): merge with the last record, process, keep
RecordReading == env = "recording" /\ UNCHANGED env
                 /\ \E sensorData \in SensorReadings(clock) :
                       ProcessCall(mergeWithLastRecord(sensorData, app.data), TRUE)

RestartRecording == env = "recording" /\ hist.resets < MaxResets /\ app.data # <<>>
                    /\ ResetCall(TRUE) /\ UNCHANGED env

\* env = "risk": the counters of a drive and the samples kept of it
MaxTally == 3

RiskTallies ==
    {[ZeroCounters EXCEPT !.harsh_acceleration = h, !.speeding = s] :
        h \in 0..MaxTally, s \in {0, 1, 7}}

\* the latitudes of the kept samples, 0 for a sample without a fix
RouteMarks ==
    {<<1>>, <<0, 0>>, <<1, 1>>, <<1, 11>>, <<1, 34>>, <<1, 34, 1>>, <<1, 101>>,
     <<1, 0, 273>>, <<1, 300>>, <<1, 334>>, <<1, 0, 401>>}

Route(marks) ==
    [i \in 1..Len(marks) |->
        Spread(MkRaw("valid", StartTime + RecordIntervalCalibrated * (i - 1),
                     marks[i] # 0, marks[i], IF marks[i] # 0 THEN Meridian ELSE 0,
                     marks[i] # 0, 0, TRUE, 10, 10, 98))]

\* showStatsPanel: generateSessionStats(this.data)
AssessRisk == env = "risk" /\ UNCHANGED env
              /\ \E marks \in RouteMarks : GenerateSessionStats(Route(marks))

InitApi == env = "api" /\ \E v \in Variants : InitVariant(v)

InitDrive == env = "drive" /\ \E v \in Variants : InitVariant(v)

InitStream == env = "stream" /\ InitVariant("hybrid")

InitScenario == env = "scenario" /\ InitVariant("hybrid")

InitApp == env = "app" /\ \E v \in Variants : InitVariant(v)

InitSession == env = "session" /\ InitVariant("hybrid")

InitRecording == env = "recording" /\ \E v \in Variants : InitVariant(v)

InitRisk == env = "risk" /\ \E counted \in RiskTallies : InitCounted("calibrated", counted)

NextApi == Advance \/ Process \/ Reset \/ Configure \/ Subscribe

NextDrive == AdvanceDrive \/ ProcessDrive \/ ConfigureDrive \/ ResetDrive

NextStream == AdvanceStream \/ ProcessStream \/ ConfigureStream

NextScenario == AdvanceScenario \/ ProcessScenario

NextApp == AdvanceApp \/ RecordDataPoint \/ StartRecording \/ SaveSession \/ EditSaved
           \/ ShowStats

NextSession == AdvanceSession \/ RecordSession \/ TuneSession \/ ReviewSession
               \/ RestartSession

NextRecording == AdvanceRecording \/ RecordReading \/ RestartRecording

NextRisk == AssessRisk

Init == InitApi \/ InitDrive \/ InitStream \/ InitScenario \/ InitApp \/ InitSession
        \/ InitRecording \/ InitRisk

Next == NextApi \/ NextDrive \/ NextStream \/ NextScenario \/ NextApp \/ NextSession
        \/ NextRecording \/ NextRisk

allvars == <<vars, env>>

SpecApi == InitApi /\ [][NextApi]_allvars

SpecDrive == InitDrive /\ [][NextDrive]_allvars

SpecStream == InitStream /\ [][NextStream]_allvars

SpecScenario == InitScenario /\ [][NextScenario]_allvars

SpecApp == InitApp /\ [][NextApp]_allvars

SpecSession == InitSession /\ [][NextSession]_allvars

SpecRecording == InitRecording /\ [][NextRecording]_allvars

SpecRisk == InitRisk /\ [][NextRisk]_allvars

Spec == Init /\ [][Next]_allvars

(***************************************************************************)
(* Properties                                                              *)
(***************************************************************************)
\* a step that is one call of processDataPoint
ProcessStep == op'.name = "processDataPoint" /\ clock' = clock

\* the state right after a call of processDataPoint that returned an object
Accepted == op.name = "processDataPoint" /\ result.returned = "object"

\* C1 (motion gating): a call of processDataPoint that accepts the sample and
\* leaves isVehicleMoving false returns no events, changes no event counter
\* and calls no observer, whatever the sample carries.
C1_MotionGating ==
    [][(ProcessStep /\ result'.returned = "object" /\ ~isVehicleMoving')
         => /\ result'.events = <<>>
            /\ eventCounters' = eventCounters
            /\ notified' = <<>>]_allvars

\* C1 happens: an accepted sample with a lateral reading above the turn
\* threshold and a speed above the limit, classified as not moving, with an
\* observer registered
C1_Witness ==
    /\ Accepted /\ ~isVehicleMoving
    /\ arg.acc /\ 5 * arg.x > 5 * thresholds.aggressive_turn
    /\ arg.hasVel /\ arg.velocidad - currentSpeedLimit > thresholds.speeding
    /\ eventListeners # <<>>
    /\ result.events = <<>>

DebouncedTypes == {"harsh_acceleration", "harsh_braking", "aggressive_turn"}

\* C2 (debounce): in one session, for harsh_acceleration, harsh_braking and
\* aggressive_turn, a call emits at most one event of the type, and none when
\* the last event of the type was emitted stability_time or less before: two
\* events of one type are more than stability_time apart.
C2_Debounce ==
    \A t \in DebouncedTypes :
        /\ hist.emitted[t] <= 1
        /\ hist.prevEmit[t] # 0
              => hist.lastEmit[t] - hist.prevEmit[t] > thresholds.stability_time

\* C2 happens: a moving sample whose lateral acceleration is above the turn
\* threshold, processed within stability_time of the last turn event, emits
\* no turn event
C2_Witness ==
    /\ Accepted /\ isVehicleMoving
    /\ result.processed.hasFiltered
    /\ FracGT(Frac(Abs(result.processed.filtered_acceleration.x), 5), thresholds.aggressive_turn)
    /\ hist.lastEmit["aggressive_turn"] # 0
    /\ op.at > hist.lastEmit["aggressive_turn"]
    /\ op.at - hist.lastEmit["aggressive_turn"] <= thresholds.stability_time
    /\ hist.emitted["aggressive_turn"] = 0

\* C3 (speeding debounce): in one session two speeding events are more than
\* 3 x stability_time apart.
C3_SpeedingDebounce ==
    /\ hist.emitted["speeding"] <= 1
    /\ hist.prevEmit["speeding"] # 0
          => hist.lastEmit["speeding"] - hist.prevEmit["speeding"]
                 > 3 * thresholds.stability_time

\* C4 (rate gate): a call made less than recordInterval after the last
\* accepted sample returns null, leaves every field of the engine as it was
\* and calls no observer.
C4_RateGate ==
    [][(ProcessStep /\ hist.lastAccepted # 0
          /\ clock - hist.lastAccepted < recordInterval(variant))
         => /\ result'.returned = "null"
            /\ UNCHANGED engine
            /\ notified' = <<>>]_allvars

\* C4 happens: a valid sample offered too early, to an engine that holds a
\* sample in its buffer and has an observer
C4_Witness ==
    /\ op.name = "processDataPoint" /\ result.returned = "null"
    /\ hist.lastAccepted # 0
    /\ op.at - hist.lastAccepted < recordInterval(variant)
    /\ arg.kind = "valid" /\ arg.acc /\ arg.gps
    /\ dataBuffer # <<>> /\ eventListeners # <<>>
    /\ ~hist.engineChanged

InvalidKinds == {"not_object", "no_timestamp", "no_participante",
                 "timestamp_not_string", "participante_not_string"}

\* C5 (invalid input): a call with a sample that is no object, lacks the
\* timestamp or the participant id, or has one of them of another type than
\* string returns null (no other outcome exists), emits no event, changes no
\* counter, leaves the baseline, the histories, the buffer and the movement
\* state as they were and calls no observer.
C5_InvalidInput ==
    [][(ProcessStep /\ arg'.kind \in InvalidKinds)
         => /\ result'.returned = "null"
            /\ result'.events = <<>>
            /\ notified' = <<>>
            /\ UNCHANGED <<eventCounters, baselineAcceleration, accelerationHistory,
                           motionHistory, speedHistory, dataBuffer, isVehicleMoving,
                           movementConfidence, gpsAvailable, lastGPSPoint,
                           lastEventTime>>]_allvars

\* C5 happens: a sample with a timestamp that is no string reaches the
\* validation (it is not rate-gated) of an engine that has accepted a sample
\* and has an observer
C5_Witness ==
    /\ op.name = "processDataPoint" /\ arg.kind = "timestamp_not_string"
    /\ result.returned = "null" /\ result.why = "invalid"
    /\ lastRecordTime = op.at
    /\ dataBuffer # <<>> /\ eventListeners # <<>>
    /\ ~hist.touched

\* five times the raw reading of the last sample
Raw5 == [x |-> 5 * arg.x, y |-> 5 * arg.y, z |-> 5 * arg.z]

\* C6 (warm-up, src/data-processor.js): in a session, the filtered
\* acceleration of each of the first 4 accepted samples that carry x, y and z
\* is the raw reading; from the 5th on the baseline is defined and the
\* filtered acceleration is the raw reading minus the baseline.
C6_WarmUp ==
    (Accepted /\ variant = "hybrid" /\ arg.acc) =>
        /\ result.processed.hasFiltered
        /\ IF hist.accelSeen <= BaselineWindow - 1
           THEN result.processed.filtered_acceleration = Raw5
           ELSE /\ baselineAcceleration.set
                /\ result.processed.filtered_acceleration =
                       [x |-> Raw5.x - baselineAcceleration.x,
                        y |-> Raw5.y - baselineAcceleration.y,
                        z |-> Raw5.z - baselineAcceleration.z]

C8_AccelerometerFallback ==
    (variant = "hybrid" /\ hist.noGps /\ CountTrue(hist.window) >= 5) => hist.everMoving

\* C9 (confidence cap): the movement confidence is in 0..100 in every state,
\* so after every accepted sample and after a reset, and the fusion of
\* either variant gives a value in 0..100 for every combination of the
\* evidence flags and of GPS availability.
C9_ConfidenceRange ==
    /\ movementConfidence \in 0..100
    /\ Accepted => result.processed.movement_confidence \in 0..100
    /\ \A hasGPS, speedCriteria, gpsMotion, accelMotion, sustained \in BOOLEAN :
          /\ HybridConfidence(hasGPS, speedCriteria, gpsMotion, accelMotion, sustained)
                \in 0..100
          /\ CalibratedConfidence(speedCriteria, accelMotion, gpsMotion) \in 0..100

\* C9 happens: an accepted sample with every evidence flag of its branch set
C9_Witness ==
    /\ Accepted /\ movementConfidence = 100
    /\ evidence.hasGPS /\ evidence.speedCriteria /\ evidence.gpsMotion
    /\ evidence.accelMotion

ArgHasGPS == Truthy(arg.gps, arg.lat) /\ Truthy(arg.gps, arg.lon)

\* C11 (decision threshold): after every accepted sample isVehicleMoving is
\* true exactly when the confidence is above 50 for a sample with lat/lon and
\* above 40 for a sample without; the flag is a function of the confidence of
\* the current sample alone (so not of its previous value), and the enriched
\* sample carries the same flag.
C11_DecisionThreshold ==
    Accepted =>
        /\ isVehicleMoving = (movementConfidence > (IF ArgHasGPS THEN 50 ELSE 40))
        /\ result.processed.vehicle_moving = isVehicleMoving

\* C11 happens: a sample with lat/lon and confidence 40 (between the two
\* thresholds) is classified as not moving in a session in which an earlier
\* sample was classified as moving
C11_Witness ==
    /\ Accepted /\ variant = "hybrid"
    /\ ArgHasGPS /\ movementConfidence = 40
    /\ hist.everMoving /\ ~isVehicleMoving

\* the longitudinal acceleration the detector of variant v compares with the
\* thresholds: the speed difference of the enriched sample d, in the hybrid
\* variant the filtered Y reading when that one is absent or 0
LongitudinalUsed(v, d) ==
    IF d.hasLongitudinal /\ ~FracIsZero(d.longitudinal_acceleration)
    THEN d.longitudinal_acceleration
    ELSE IF v = "hybrid" /\ d.hasFiltered THEN Frac(d.filtered_acceleration.y, 5)
    ELSE ZeroFrac

\* C12 (harsh acceleration / braking trigger), for positive thresholds: a
\* call that accepts a sample and classifies it as moving returns a
\* harsh_acceleration event exactly when the longitudinal acceleration is above
\* the harsh_acceleration threshold and the last event of the type is more
\* than stability_time back, and a harsh_braking event exactly when it is
\* below minus the harsh_braking threshold and that type is not debounced,
\* whichever fields the sample carries.
C12_HarshTrigger ==
    [][(ProcessStep /\ result'.returned = "object" /\ isVehicleMoving'
          /\ thresholds.harsh_acceleration > 0 /\ thresholds.harsh_braking > 0)
         => /\ (hist'.emitted["harsh_acceleration"] >= 1)
                <=> /\ FracGT(LongitudinalUsed(variant, result'.processed),
                              thresholds.harsh_acceleration)
                    /\ NotDebounced(lastEventTime["harsh_acceleration"], clock,
                                    thresholds.stability_time)
            /\ (hist'.emitted["harsh_braking"] >= 1)
                <=> /\ FracLT(LongitudinalUsed(variant, result'.processed),
                              -thresholds.harsh_braking)
                    /\ NotDebounced(lastEventTime["harsh_braking"], clock,
                                    thresholds.stability_time)]_allvars

\* the speed of the enriched sample d, measured or estimated, as the
\* detector of variant v knows it (0 when the sample has none)
SpeedOf(v, d) ==
    IF v = "hybrid"
    THEN IF d.raw.hasVel THEN Frac(d.raw.velocidad, 1)
         ELSE IF d.hasEstimated THEN Frac(d.estimated_speed, 1)
         ELSE ZeroFrac
    ELSE IF d.hasFilteredSpeed THEN d.filtered_speed ELSE ZeroFrac

\* C13 (aggressive-turn speed gate): an accepted sample for which an
\* aggressive_turn event is emitted has a speed above 15 km/h; a sample with
\* a lateral acceleration above the threshold and a speed of 15 km/h or less
\* emits none.
C13_TurnSpeedGate ==
    (Accepted /\ hist.emitted["aggressive_turn"] >= 1)
        => FracGT(SpeedOf(variant, result.processed), 15)

\* C14 (speeding trigger): an accepted sample for which a speeding event is
\* emitted has a speed above 30 km/h that exceeds the limit of its own driving
\* context (highway 110, urban_fast 70, urban 60, residential 40) by more
\* than the speeding threshold, and the value of the event is the speed minus
\* that limit.
C14_SpeedingTrigger ==
    Accepted =>
        \A i \in 1..Len(result.events) :
            result.events[i].type = "speeding" =>
                LET speed == SpeedOf(variant, result.processed)
                    limit == updateSpeedLimit(determineDrivingContextSinaloa(TRUE, speed))
                    value == result.events[i].value
                IN /\ FracGT(speed, 30)
                   /\ FracGT(speed, limit + thresholds.speeding)
                   /\ value.n * speed.d = (speed.n - limit * speed.d) * value.d

\* the triggering values (0.1 m/s^2) and the thresholds the severity scale
\* is tabulated for: every default and every application threshold
MaxSeverityValue == 150

SeverityThresholds ==
    {DefaultThresholds(v)[t] : v \in Variants, t \in DebouncedTypes}
    \cup {AppOverrides[t] : t \in DebouncedTypes}

SeverityRank(s) ==
    CASE s = "low" -> 0 [] s = "moderate" -> 1 [] s = "high" -> 2 [] OTHER -> 3

\* the scale of the claim for a value (a fraction) and a positive threshold
SeverityByRatio(value, threshold) ==
    IF value.n * 10 >= 25 * threshold * value.d THEN "extreme"
    ELSE IF value.n * 10 >= 20 * threshold * value.d THEN "high"
    ELSE IF value.n * 10 >= 15 * threshold * value.d THEN "moderate"
    ELSE "low"

\* C15 (severity by ratio): for harsh_acceleration, harsh_braking and
\* aggressive_turn the severity of an event with value v and threshold t is
\* extreme for v/t >= 2.5, high for 2.0 <= v/t < 2.5, moderate for
\* 1.5 <= v/t < 2.0 and low otherwise, so v = 2t is high and v = 2.5t is
\* extreme, and the severity does not decrease when v grows: for every
\* tabulated value and threshold, and for every event a call returns.
C15_SeverityByRatio ==
    /\ Fresh =>
          \A t \in SeverityThresholds :
             /\ \A v \in 0..MaxSeverityValue :
                   calculateSeverity(variant, Frac(v, 1), t) = SeverityByRatio(Frac(v, 1), t)
             /\ \A v \in 1..MaxSeverityValue :
                   SeverityRank(calculateSeverity(variant, Frac(v - 1, 1), t))
                      <= SeverityRank(calculateSeverity(variant, Frac(v, 1), t))
             /\ calculateSeverity(variant, Frac(2 * t, 1), t) = "high"
             /\ calculateSeverity(variant, Frac(5 * t, 2), t) = "extreme"
    /\ Accepted =>
          \A i \in 1..Len(result.events) :
             result.events[i].type \in DebouncedTypes =>
                result.events[i].severity =
                    SeverityByRatio(result.events[i].value, thresholds[result.events[i].type])

\* C16 (scenario, src/data-processor.js): with the default thresholds, after
\* six accepted samples 1.5 s apart, each with the reading {0, 0, 9.8} and
\* nothing else, the sample {0, 6.5, 9.8} with speed 40 km/h, 1.5 s after the
\* sixth, is accepted and yields exactly one event, a harsh_acceleration of
\* severity extreme.
C16_Scenario ==
    [][(/\ ProcessStep
        /\ thresholds = DefaultThresholds("hybrid")
        /\ hist.stream = "const" /\ hist.reading = RestReading /\ hist.accelSeen = 6
        /\ clock = hist.lastAccepted + RecordIntervalHybrid
        /\ arg'.acc /\ [x |-> arg'.x, y |-> arg'.y, z |-> arg'.z] = JoltReading
        /\ arg'.hasVel /\ arg'.velocidad = JoltSpeed)
         => /\ result'.returned = "object"
            /\ Len(result'.events) = 1
            /\ result'.events[1].type = "harsh_acceleration"
            /\ result'.events[1].severity = "extreme"]_allvars

\* the events of type t in the list
CountType(events, t) == Cardinality({i \in 1..Len(events) : events[i].type = t})

\* C17 (counters): at every point of a session each counter is the number of
\* events of its type returned by processDataPoint since the last reset (or
\* the construction) and is not negative; a call of processDataPoint raises
\* each counter by exactly the number of events of the type in the list it
\* returns, and only resetCounters lowers a counter.
C17_Counters ==
    /\ [](\A t \in EventTypes : eventCounters[t] = hist.total[t] /\ eventCounters[t] >= 0)
    /\ [][/\ ProcessStep =>
              \A t \in EventTypes :
                  eventCounters'[t] = eventCounters[t] + CountType(result'.events, t)
          /\ op'.name # "resetCounters" =>
              \A t \in EventTypes : eventCounters'[t] >= eventCounters[t]]_allvars

\* C17 happens: the second call of a session that returns an event of a type
\* (together with an event of another type), the counter at 2
C17_Witness ==
    /\ Accepted
    /\ \E t \in EventTypes :
          /\ CountType(result.events, t) = 1 /\ eventCounters[t] = 2
          /\ hist.prevEmit[t] # 0
    /\ Len(result.events) >= 2
    /\ result.counters = eventCounters

\* the calls that deliver the event to the observer registered j-th
Deliveries(j, event) ==
    {k \in 1..Len(notified) : notified[k].listener = j /\ notified[k].event = event}

\* C18 (observer notification): when processDataPoint returns, every event of
\* the list it returns has been delivered exactly once to each registered
\* observer, nothing else has been delivered, and a call that is rate-gated,
\* invalid or classified as not moving has called no observer.
C18_ObserverNotification ==
    op.name = "processDataPoint" =>
        /\ \A i \in 1..Len(result.events), j \in 1..Len(eventListeners) :
               Cardinality(Deliveries(j, result.events[i])) = 1
        /\ \A k \in 1..Len(notified) :
               /\ notified[k].listener \in 1..Len(eventListeners)
               /\ \E i \in 1..Len(result.events) : notified[k].event = result.events[i]
        /\ Len(notified) = Len(result.events) * Len(eventListeners)
        /\ (result.returned = "null" \/ ~isVehicleMoving) => notified = <<>>

\* C18 happens: a call returns two or more events with two observers
\* registered
C18_Witness ==
    /\ Accepted
    /\ Len(result.events) >= 2 /\ Len(eventListeners) = 2
    /\ Len(notified) = 2 * Len(result.events)

\* the engine with every registered observer replaced by one that returns
AllReturning(e) ==
    [e EXCEPT !.eventListeners = [j \in 1..Len(e.eventListeners) |-> "ok"]]

\* C19 (callback isolation): when an observer fails during a call of
\* processDataPoint, every event of the sample is still delivered to every
\* registered observer and counted, and the call returns what it returns
\* when no observer fails (enriched sample, events, counters), leaving the
\* engine in the same state: the failure does not reach the caller.
C19_CallbackIsolation ==
    [][(ProcessStep /\ \E k \in 1..Len(notified') : notified'[k].threw)
         => /\ result'.returned = "object"
            /\ \A i \in 1..Len(result'.events), j \in 1..Len(eventListeners) :
                   \E k \in 1..Len(notified') :
                      notified'[k].listener = j /\ notified'[k].event = result'.events[i]
            /\ \A t \in EventTypes :
                   eventCounters'[t] = eventCounters[t] + CountType(result'.events, t)
            /\ \E r \in {processDataPoint(variant, arg', AllReturning(Engine), clock)} :
                   /\ result' = r.result
                   /\ AllReturning(Engine)' = r.engine]_allvars

\* C19 happens: the observer registered first fails on each of two or more
\* events of one sample, the one registered second receives them all
C19_Witness ==
    /\ Accepted
    /\ eventListeners = <<"throws", "ok">>
    /\ Len(result.events) >= 2
    /\ notified[1].threw
    /\ \A i \in 1..Len(result.events) :
          \E k \in 1..Len(notified) : notified[k].listener = 2 /\ notified[k].event = result.events[i]

\* C20 (reset clears state): right after resetCounters the four counters are
\* 0, the buffer, the acceleration history and the motion-flag history are
\* empty, the baseline and the last GPS point are undefined, the
\* last-event-time map is empty, isVehicleMoving is false and the confidence
\* is 0, whatever was done before.
C20_ResetClears ==
    op.name = "resetCounters" =>
        /\ \A t \in EventTypes : eventCounters[t] = 0
        /\ dataBuffer = <<>> /\ accelerationHistory = <<>> /\ motionHistory = <<>>
        /\ baselineAcceleration = NoBaseline
        /\ lastGPSPoint = NoGPSPoint
        /\ lastEventTime = NoEventTimes
        /\ ~isVehicleMoving /\ movementConfidence = 0

\* C20 happens: a reset of an engine in which every one of these fields was
\* in use: all four counters and last-event times set, the histories filled,
\* the baseline and the last GPS point defined, the vehicle moving
C20_Witness ==
    /\ op.name = "resetCounters" /\ hist.populated
    /\ eventCounters = ZeroCounters /\ ~baselineAcceleration.set

\* a newly constructed engine given the thresholds and the observers of e
NewEngineLike(v, e) ==
    [ConstructedEngine(v) EXCEPT !.thresholds = e.thresholds,
                                 !.eventListeners = e.eventListeners]

\* C21 (fresh session after reset): right after resetCounters the baseline is
\* undefined, and the call of processDataPoint that follows a reset returns
\* what a newly constructed engine with the same thresholds returns for the
\* same sample (null, or the same enriched sample, events and counters): it
\* is accepted exactly when the new engine accepts it.
C21_FreshAfterReset ==
    /\ [](op.name = "resetCounters" => ~baselineAcceleration.set)
    /\ [][(ProcessStep /\ op.name = "resetCounters")
            => result' = processDataPoint(variant, arg', NewEngineLike(variant, Engine),
                                          clock).result]_allvars

\* C22 (reset idempotence): from every reachable engine state, resetCounters
\* called twice in a row leaves the engine in the state one call leaves it
\* in; so right after a reset another reset changes nothing.
C22_ResetIdempotent ==
    /\ resetCounters(variant, resetCounters(variant, Engine)) = resetCounters(variant, Engine)
    /\ op.name = "resetCounters" => resetCounters(variant, Engine) = Engine

\* C22 happens: a reset has cleared an engine in which every field it clears
\* was in use, fields it does not clear are still set, and a second reset
\* would change nothing
C22_Witness ==
    /\ op.name = "resetCounters" /\ hist.populated
    /\ lastRecordTime # 0 /\ gpsAvailable
    /\ resetCounters(variant, Engine) = Engine

\* the arguments setThresholds is called with
ThresholdOverrides == {AppOverrides, ShortStability, Degenerate}

\* C23 (setThresholds merge): setThresholds(p) gives every threshold named
\* in p the value of p and leaves every other threshold and every other field
\* of the engine as it was; of two calls in a row the later wins on the
\* fields both name; and the events of an accepted sample are those of the
\* thresholds in force: their values exceed the (positive) current
\* thresholds.
C23_SetThresholdsMerge ==
    /\ [](op.name \in {"constructor", "setThresholds"} =>
           \A p, q \in ThresholdOverrides :
            \A k \in DOMAIN thresholds \cup DOMAIN p \cup DOMAIN q :
               setThresholds(setThresholds(thresholds, p), q)[k] =
                  IF k \in DOMAIN q THEN q[k]
                  ELSE IF k \in DOMAIN p THEN p[k]
                  ELSE thresholds[k])
    /\ [](Accepted =>
            \A i \in 1..Len(result.events) :
               (result.events[i].type \in DebouncedTypes
                  /\ thresholds[result.events[i].type] > 0)
               => FracGT(result.events[i].value, thresholds[result.events[i].type]))
    /\ [][(hist'.sets = hist.sets + 1)
            => /\ op'.name = "setThresholds"
               /\ DOMAIN thresholds' = DOMAIN thresholds \cup DOMAIN hist'.lastSet
               /\ \A k \in DOMAIN hist'.lastSet : thresholds'[k] = hist'.lastSet[k]
               /\ \A k \in DOMAIN thresholds \ DOMAIN hist'.lastSet :
                     thresholds'[k] = thresholds[k]
               /\ UNCHANGED <<eventCounters, dataBuffer, accelerationHistory, motionHistory,
                              speedHistory, baselineAcceleration, lastEventTime,
                              isVehicleMoving, movementConfidence, gpsAvailable,
                              lastRecordTime, lastGPSPoint, currentSpeedLimit,
                              eventListeners>>]_allvars

\* C23 happens: after setThresholds({stability_time: 1000 ms}) two events of
\* one type are emitted 1.5 s apart, which the default 2000 ms forbids, the
\* thresholds the call did not name still at their defaults
C23_Witness ==
    /\ Accepted /\ variant = "hybrid"
    /\ hist.lastSet = ShortStability
    /\ thresholds = [DefaultThresholds("hybrid") EXCEPT !.stability_time = ShortStability.stability_time]
    /\ \E t \in DebouncedTypes :
          /\ hist.emitted[t] = 1 /\ hist.prevEmit[t] # 0
          /\ hist.lastEmit[t] - hist.prevEmit[t] <= DefaultThresholds("hybrid").stability_time

\* the counts read through the object the caller holds
HeldCounters == Held(app.counters, eventCounters)

C25_StatsPurity ==
    /\ [](generateSessionStats(variant, Engine, app.data)
            = generateSessionStats(variant, ConstructedEngine(variant), app.data))
    /\ [][(op'.name = "generateSessionStats" /\ op'.at = clock)
           => Engine' = Engine]_allvars

\* C26 (rate gate measured from the last accepted sample): a call of
\* processDataPoint with a structurally valid sample, made recordInterval or
\* more after the last call that returned an object, is not dropped by the
\* frequency filter, whatever calls returned null in between.
C26_GateFromLastAccepted ==
    [][(ProcessStep /\ validateDataStructure(arg')
          /\ hist.lastAccepted # 0
          /\ clock - hist.lastAccepted >= recordInterval(variant))
       => ~(result'.returned = "null" /\ result'.why = "gated")]_allvars

\* the events of type t among events
OfType(events, t) == SelectSeq(events, LAMBDA ev : ev.type = t)

\* the events the detector of the variant returns in this step for the
\* enriched sample of the step, had the last-event times been times
EventsHad(times) ==
    IF variant = "hybrid"
    THEN detectEventsHybrid(result'.processed, isVehicleMoving', times, currentSpeedLimit,
                            thresholds, clock).events
    ELSE detectDrivingEventsFiltered(result'.processed, isVehicleMoving', movementConfidence',
                                     times, currentSpeedLimit', thresholds, clock).events

\* C27 (independent debounce): in every accepted call the events of a type B
\* are those the detector returns from B's own last-event time: they are the
\* same had an event of another type A never been emitted, been emitted at
\* the preceding call, or been emitted at this very call.
C27_IndependentDebounce ==
    [][(ProcessStep /\ result'.returned = "object")
       => \A B \in EventTypes : \A A \in EventTypes \ {B} :
             \A tA \in {0, lastRecordTime, clock} :
                OfType(EventsHad([lastEventTime EXCEPT ![A] = tA]), B)
                   = OfType(result'.events, B)]_allvars

\* two events of different types are returned by one call, one of them of a
\* type that was also emitted at the preceding accepted call
C27_Witness ==
    /\ Accepted
    /\ \E A, B \in EventTypes :
          /\ A # B /\ hist.emitted[A] > 0 /\ hist.emitted[B] > 0
          /\ hist.prevEmit[A] # 0 /\ clock - hist.prevEmit[A] <= recordInterval(variant)

\* C29 (baseline value): after every accepted sample whose accelerometer
\* vector entered the acceleration history as its fifth or a later vector,
\* the baseline is defined and equals the component-wise mean of the five
\* most recent vectors of the history.
C29_BaselineValue ==
    (/\ Accepted /\ variant = "hybrid"
     /\ Truthy(arg.acc, arg.x) /\ Truthy(arg.acc, arg.y) /\ Truthy(arg.acc, arg.z)
     /\ Len(accelerationHistory) >= BaselineWindow)
    => /\ baselineAcceleration.set
       /\ baselineAcceleration = calculateAccelerationBaseline(accelerationHistory)

\* C28 (baseline lifetime): the baseline is undefined as long as fewer than
\* five samples carrying an accelerometer reading have been accepted in the
\* session, and a defined baseline stays defined in every step that is not
\* resetCounters: processDataPoint of any sample, setThresholds,
\* generateSessionStats.
C28_BaselineLifetime ==
    /\ [](baselineAcceleration.set => hist.accelSeen >= BaselineWindow)
    /\ [][(baselineAcceleration.set
            /\ ~(op'.name = "resetCounters" /\ hist'.resets = hist.resets + 1))
           => baselineAcceleration'.set]_allvars

\* the baseline has been established and since then the thresholds were
\* changed, the statistics produced, and a sample without accelerometer
\* reading accepted
C28_Witness ==
    /\ baselineAcceleration.set
    /\ hist.sets > 0 /\ ~app.stats.error
    /\ Accepted /\ ~arg.acc

\* C30 (sliding buffer): the buffer never holds more than bufferSize entries;
\* a call of processDataPoint that returns an object appends its enriched
\* sample, moving or not, and drops the oldest entry beyond bufferSize; a
\* call that returns null (rate-gated or invalid) leaves the buffer alone,
\* resetCounters empties it and no other operation touches it.  Where the
\* caller keeps every accepted sample since the last reset, the buffer is
\* the last bufferSize of them, in order.
C30_SlidingBuffer ==
    /\ [](Len(dataBuffer) <= bufferSize(variant))
    /\ [](env \in {"app", "session"} => dataBuffer = LastK(app.data, bufferSize(variant)))
    /\ [][ProcessStep
           => dataBuffer' = IF result'.returned = "object"
                            THEN LastK(Append(dataBuffer, result'.processed), bufferSize(variant))
                            ELSE dataBuffer]_allvars
    /\ [][(op'.name # "processDataPoint")
           => dataBuffer' = IF op'.name = "resetCounters" /\ hist'.resets = hist.resets + 1
                            THEN <<>> ELSE dataBuffer]_allvars

\* the buffer is full, its oldest entry is no longer the first sample of the
\* session, and the sample just appended is one of a vehicle at rest
C30_Witness ==
    /\ Accepted /\ ~isVehicleMoving
    /\ Len(dataBuffer) = bufferSize(variant)
    /\ hist.resets = 0 /\ dataBuffer[1].raw.timestamp > StartTime
    /\ dataBuffer[Len(dataBuffer)] = result.processed

\* the speed an enriched sample of the hybrid engine carries, km/h: the
\* reported one if present, otherwise the estimated one
CarriesSpeed(d) == d.raw.hasVel \/ d.hasEstimated

SpeedCarried(d) == IF d.raw.hasVel THEN d.raw.velocidad ELSE d.estimated_speed

\* the longitudinal acceleration read from an enriched sample: every reader
\* of the field takes an absent one as 0
LongitudinalRead(d) == IF d.hasLongitudinal THEN d.longitudinal_acceleration ELSE ZeroFrac

\* C31 (longitudinal acceleration): the longitudinal acceleration read from
\* the enriched sample of an accepted call (hybrid) is 0 when the buffer was
\* empty before the call or when the sample's timestamp is not later than
\* that of the last buffered sample, and otherwise, when both samples carry
\* a speed, it is the difference of the two speeds divided by the elapsed
\* time and by 3.6.
C31_Longitudinal ==
    [][(ProcessStep /\ result'.returned = "object" /\ variant = "hybrid")
       => LET cur == result'.processed
              prev == IF Len(dataBuffer) > 0 THEN dataBuffer[Len(dataBuffer)] ELSE cur
              dt == cur.raw.timestamp - prev.raw.timestamp
          IN /\ (Len(dataBuffer) = 0 \/ dt <= 0) => FracIsZero(LongitudinalRead(cur))
             /\ (Len(dataBuffer) > 0 /\ dt > 0 /\ CarriesSpeed(cur) /\ CarriesSpeed(prev))
                => LongitudinalRead(cur)
                      = SpeedDeltaToAccel(SpeedCarried(cur) - SpeedCarried(prev), dt)]_allvars

\* the position group and the accelerometer group of a raw record
GpsGroup(r) == [gps |-> r.gps, lat |-> r.lat, lon |-> r.lon, hasVel |-> r.hasVel,
                velocidad |-> r.velocidad]

AccelGroup(r) == [acc |-> r.acc, x |-> r.x, y |-> r.y, z |-> r.z]

TotalCounted == eventCounters.harsh_acceleration + eventCounters.harsh_braking
                + eventCounters.aggressive_turn + eventCounters.speeding

\* C32 (risk level): the risk assessment of generateSessionStats
\* (calibrated) has level high when the total event count divided by the
\* distance in kilometres is above 3, moderate when it is above 1 and at
\* most 3, and low otherwise (a distance of 0 included), and its score is
\* between 0 and 100.
C32_RiskLevel ==
    (op.name = "generateSessionStats" /\ variant = "calibrated" /\ ~app.stats.error)
    => LET metres == app.stats.total_distance
           risk == app.stats.risk_assessment
       IN /\ risk.level = IF metres > 0 /\ 1000 * TotalCounted > 3 * metres THEN "high"
                           ELSE IF metres > 0 /\ 1000 * TotalCounted > metres THEN "moderate"
                           ELSE "low"
          /\ risk.score \in 0..100
\* the debounce window the detector of the variant applies to the type
DebounceWindow(t) ==
    IF t = "speeding" THEN thresholds.stability_time * SpeedingWindowFactor(variant)
    ELSE thresholds.stability_time

\* the sample of this step satisfies the trigger of the type while moving:
\* the detector emits the type when no event was emitted before
Triggers(t) == OfType(EventsHad(NoEventTimes), t) # <<>>

\* C34 (suppressed triggers do not extend the debounce window): a call of
\* processDataPoint sets the last-event time of a type to the time of the
\* call when it emits an event of the type and leaves it alone otherwise, so
\* the last-event time is the time of the last emission; and an accepted
\* sample that satisfies the trigger of a type emits the event exactly when
\* no event of the type was emitted or the last one was emitted more than the
\* debounce window before, however many triggers were suppressed since.
C34_SuppressedTriggers ==
    /\ [](\A t \in EventTypes : hist.lastEmit[t] # 0 => lastEventTime[t] = hist.lastEmit[t])
    /\ [][ProcessStep
          => \A t \in EventTypes :
                /\ lastEventTime'[t] = IF OfType(result'.events, t) # <<>> THEN clock
                                        ELSE lastEventTime[t]
                /\ (result'.returned = "object" /\ Triggers(t))
                   => (OfType(result'.events, t) # <<>>
                         <=> NotDebounced(lastEventTime[t], clock, DebounceWindow(t)))]_allvars

\* a type is emitted again (hybrid) right after a sample that satisfied its
\* trigger while moving and was suppressed: that sample came after the
\* previous emission and within the window, this one is the first beyond it
C34_Witness ==
    /\ Accepted /\ variant = "hybrid" /\ Len(dataBuffer) >= 2
    /\ \E t \in EventTypes :
          LET prev == dataBuffer[Len(dataBuffer) - 1]
          IN /\ hist.emitted[t] >= 1 /\ hist.prevEmit[t] # 0
             /\ clock - hist.prevEmit[t] > DebounceWindow(t)
             /\ prev.raw.timestamp > hist.prevEmit[t]
             /\ prev.raw.timestamp - hist.prevEmit[t] <= DebounceWindow(t)
             /\ prev.vehicle_moving
             /\ OfType(HybridTriggers(prev, NoEventTimes, currentSpeedLimit, thresholds,
                                      clock).events, t) # <<>>
\* the accelerometer motion flag of a sample: the variation of its reading
\* from the baseline is above motion_threshold (false without a reading or
\* without a baseline)
MotionFlag(rawData, base, th) ==
    /\ rawData.acc /\ base.set
    /\ VariationExceeds([x |-> rawData.x, y |-> rawData.y, z |-> rawData.z], base,
                        th.motion_threshold)

\* C35 (decision without GPS, hybrid): a call that accepts a sample without
\* lat/lon classifies the vehicle as moving exactly when the variation of the
\* sample's reading from the baseline is above motion_threshold; sustained
\* motion with the sample's own flag false does not make it moving, and it is
\* not moving while there is no baseline.
C35_AccelOnlyDecision ==
    [][(ProcessStep /\ result'.returned = "object" /\ variant = "hybrid" /\ ~gpsAvailable')
       => /\ isVehicleMoving' <=> MotionFlag(arg', baselineAcceleration', thresholds)
          /\ (evidence'.sustained /\ ~MotionFlag(arg', baselineAcceleration', thresholds))
                => ~isVehicleMoving'
          /\ ~baselineAcceleration'.set => ~isVehicleMoving']_allvars
\* at least two of three
TwoOfThree(a, b, c) == B2N(a) + B2N(b) + B2N(c) >= 2

C37_EventSet ==
    Accepted
    => /\ \A t \in EventTypes : Len(OfType(result.events, t)) <= 1
       /\ Len(result.events) <= Cardinality(EventTypes)
       /\ (thresholds.harsh_acceleration >= 0 /\ thresholds.harsh_braking >= 0)
          => ~(/\ OfType(result.events, "harsh_acceleration") # <<>>
               /\ OfType(result.events, "harsh_braking") # <<>>)

\* one sample returns three events: a harsh_acceleration, an aggressive_turn
\* and a speeding event
C37_Witness ==
    /\ Accepted /\ Len(result.events) = 3
    /\ thresholds.harsh_acceleration >= 0 /\ thresholds.harsh_braking >= 0
    /\ OfType(result.events, "harsh_acceleration") # <<>>
    /\ OfType(result.events, "aggressive_turn") # <<>>
    /\ OfType(result.events, "speeding") # <<>>
\* the speeds of the bucket check, in quarters of a km/h
MaxQuarterSpeed == 600

\* C38 (speeding only in the highway context, calibrated): with the default
\* speeding threshold, a sample for which a speeding event is returned has
\* the driving context highway and a speed above 90 km/h; a sample of the
\* urban_fast, urban, residential or stationary context returns none; for
\* every speed of those four contexts (in quarters of a km/h), the speed
\* minus the limit of its context is not above the speeding threshold.
C38_SpeedingOnlyHighway ==
    /\ (Accepted /\ variant = "calibrated"
          /\ thresholds.speeding = DefaultThresholds("calibrated").speeding
          /\ OfType(result.events, "speeding") # <<>>)
       => /\ result.processed.driving_context = "highway"
          /\ result.processed.hasFilteredSpeed
          /\ FracGT(result.processed.filtered_speed, 90)
    /\ Fresh
       => \A q \in 0..MaxQuarterSpeed :
             LET context == determineDrivingContextSinaloa(TRUE, Frac(q, 4))
             IN context # "highway"
                => ~(q - 4 * updateSpeedLimit(context)
                       > 4 * DefaultThresholds("calibrated").speeding)

\* a speeding event is returned for a highway sample under the default
\* threshold
C38_Witness ==
    /\ Accepted /\ variant = "calibrated"
    /\ thresholds.speeding = DefaultThresholds("calibrated").speeding
    /\ OfType(result.events, "speeding") # <<>>
    /\ result.processed.driving_context = "highway"
    /\ result.processed.speed_limit = speedLimits.highway
\* the place of a type in the order of the detector's tests
EventRank(t) ==
    CASE t = "harsh_acceleration" -> 1
      [] t = "harsh_braking" -> 2
      [] t = "aggressive_turn" -> 3
      [] OTHER -> 4

\* C39 (processing order within one accepted sample, hybrid): the enriched
\* sample carries the movement state the call has just computed; its
\* longitudinal acceleration is the one computed against the buffer as it was
\* before the call; the events are the detector's for that enriched sample;
\* the buffer afterwards is the old one with the sample appended; the events
\* are in the order harsh_acceleration, harsh_braking, aggressive_turn,
\* speeding; and the observers are called event by event, every observer for
\* each event, with counters that include that event and the earlier events
\* of the sample but not the later ones.
C39_ProcessingOrder ==
    [][(ProcessStep /\ result'.returned = "object" /\ variant = "hybrid")
       => LET cur == result'.processed
              evs == result'.events
              each == Len(eventListeners)
              seen(i) == [t \in EventTypes |->
                            eventCounters[t]
                            + Cardinality({h \in 1..i : evs[h].type = t})]
          IN /\ cur.vehicle_moving = isVehicleMoving'
             /\ cur.movement_confidence = movementConfidence'
             /\ LongitudinalRead(cur) = calculateLongitudinalAcceleration(cur, dataBuffer)
             /\ evs = detectEventsHybrid(cur, isVehicleMoving', lastEventTime,
                                         currentSpeedLimit, thresholds, clock).events
             /\ dataBuffer' = updateBuffer(dataBuffer, cur, bufferSize(variant))
             /\ \A i, j \in 1..Len(evs) : i < j => EventRank(evs[i].type) < EventRank(evs[j].type)
             /\ Len(notified') = Len(evs) * each
             /\ \A i \in 1..Len(evs) : \A j \in 1..each :
                   LET call == notified'[(i - 1) * each + j]
                   IN /\ call.listener = j /\ call.event = evs[i]
                      /\ call.counters = seen(i)
             /\ eventCounters' = seen(Len(evs))]_allvars

\* a sample with a non-zero longitudinal acceleration returns two events or
\* more while an observer is registered: the first call shows counters
\* without the last event, the last call shows the counters of the engine
C39_Witness ==
    /\ Accepted /\ variant = "hybrid"
    /\ Len(eventListeners) >= 1 /\ Len(result.events) >= 2
    /\ Len(dataBuffer) >= 2 /\ ~FracIsZero(LongitudinalRead(result.processed))
    /\ notified[1].event = result.events[1]
    /\ notified[1].counters # eventCounters
    /\ notified[Len(notified)].counters = eventCounters
\* C40 (reset frame): a call of resetCounters leaves the thresholds, the
\* values set by setThresholds included, and the list of registered
\* observers as they were (the speed-limit table, recordInterval and
\* bufferSize are assigned by the constructor only); and after a reset every
\* registered observer is still called for each event of an accepted sample.
C40_ResetFrame ==
    /\ [][op'.name = "resetCounters" /\ hist'.resets = hist.resets + 1
            => /\ thresholds' = thresholds
               /\ eventListeners' = eventListeners]_allvars
    /\ []((Accepted /\ hist.resets >= 1)
            => \A i \in 1..Len(result.events) : \A j \in 1..Len(eventListeners) :
                  \E k \in 1..Len(notified) :
                     notified[k].listener = j /\ notified[k].event = result.events[i])

\* after setThresholds, the registration of an observer and a reset, a sample
\* returns an event and the observer is called for it; the thresholds are
\* still the ones set
C40_Witness ==
    /\ Accepted /\ hist.resets >= 1 /\ hist.sets >= 1
    /\ thresholds # DefaultThresholds(variant)
    /\ Len(eventListeners) >= 1
    /\ result.events # <<>>
    /\ notified # <<>> /\ notified[1].event = result.events[1]
====
